---- MODULE Spec2Model ----
(***************************************************************************)
(* Model of the PII detection / reconciliation / redaction engine of       *)
(* pii_redaction.  Texts are sequences of one-character strings, offsets    *)
(* are Python's 0-based half-open offsets, confidences are percentages.    *)
(***************************************************************************)
EXTENDS Integers, Sequences, FiniteSets, TLC

\* ---------------------------------------------------------------- bounds
\* Length of the document the reconciler's entities point into.
TextLen == 3
\* Largest number of entities handed to one merge_entity_lists call.
MaxEntities == 3
\* Longest snippet handed to a direct HashStrategy.redact call.
MaxSnippetLen == 2
\* Largest number of direct redact calls on one strategy instance.
MaxCalls == 3
\* Longest snippet handed to a stateless strategy.
PureLen == 5
\* TextRedactor constructions attempted, and redact calls on their strategies.
MaxRedactors == 2
MaxInstCalls == 2
\* Longest text of a RedactionResult under validation, and most audit entries.
ValLen == 3
MaxAudit == 2
\* Most entities in one response of the Comprehend service.
MaxResponse == 2
\* Most entities a detector reports in one field of a record.
MaxFieldEntities == 2
\* Most records in a file.
MaxPayloads == 3

VARIABLES
    text,             \* the text under detection / redaction
    entity_lists,     \* merge_entity_lists(*entity_lists): the argument lists
    sorted_entities,  \* deduplicate_entities: sorted_entities
    deduplicated,     \* deduplicate_entities: deduplicated (the accepted list)
    scan_idx,         \* deduplicate_entities: position of the outer for loop
    candidate,        \* deduplicate_entities: the entity of the last iteration
    merged,           \* the list merge_entity_lists returned
    rpc,              \* where the merge call stands: "call", "scan", "done"
    strategy_name,    \* TextRedactor.strategy_name
    hash_cache,       \* HashStrategy.hash_cache of the strategy instance
    entities,         \* redact_text: the entities argument
    sorted_desc,      \* redact_text: sorted_entities (descending start_pos)
    red_idx,          \* redact_text: position of the for loop
    redacted_text,    \* redact_text: redacted_text (the working text)
    redaction_metadata, \* redact_text: redaction_metadata
    result,           \* the RedactionResult redact_text returned
    tpc,              \* where the redact_text call stands
    calls,            \* log of the direct strategy.redact calls and returns
    p_text,           \* strategy.redact(original_text, ...): a stateless call
    p_type,           \* strategy.redact(..., entity_type)
    p_strategy,       \* the variant the last stateless call went to
    p_out,            \* what the last stateless call returned
    redactors,        \* the TextRedactor objects constructed so far
    ctor_log,         \* TextRedactor(name) constructions and their outcome
    inst_log,         \* redact calls on the strategies of redactors
    confidence_score, \* RegexDetector.confidence_score, in percent
    det_entities,     \* RegexDetector.detect: entities
    det_pattern,      \* RegexDetector.detect: patterns of PII_PATTERNS begun
    det_matches,      \* RegexDetector.detect: matches the iterator still holds
    det_log,          \* the matches handled, the entity made of each, its fate
    det_pc,           \* where the detect call stands
    val_result,       \* validate_redaction: the result argument
    validation,       \* validate_redaction: the dictionaries returned so far
    pii_detector,     \* PIIDetector: use_comprehend, comprehend_detector, cer_endpoint_arn
    service,          \* what the Comprehend service answers to each method
    src_calls,        \* the ComprehendDetector calls made and what they returned
    src_lists,        \* PIIDetector.detect_pii: entity_lists
    src_result,       \* the list PIIDetector.detect_pii returned
    src_pc,           \* where the PIIDetector.detect_pii call stands
    payload,          \* the record handed to process_payload, as it was handed over
    payload_in,       \* the content of that record object after the call
    detector_answers, \* what detector.detect_pii does for each field
    redacted_payload, \* the record process_payload returned
    processing_stats, \* the statistics process_payload returned
    pl_strategy,      \* redactor.strategy_name of the payload processor
    pl_pc,            \* which process_payload ran
    fs_original,      \* the file at file_path before process_file_in_place
    fs_file,          \* the file at file_path
    fs_backup,        \* the file at backup_path
    fs_payloads,      \* process_file: the redacted payloads to save
    fs_result,        \* what process_file_in_place returned or raised
    fs_pc             \* where the process_file_in_place call stands

rvars == <<entity_lists, sorted_entities, deduplicated, scan_idx, candidate,
           merged, rpc>>
tvars == <<entities, sorted_desc, red_idx, redacted_text, redaction_metadata,
           result, tpc>>
svars == <<strategy_name, hash_cache, calls>>

pvars == <<p_text, p_type, p_strategy, p_out>>
ivars == <<redactors, ctor_log, inst_log>>
dvars == <<confidence_score, det_entities, det_pattern, det_matches, det_log, det_pc>>
xvars == <<pvars, ivars, dvars>>

vvars == <<val_result, validation>>
qvars == <<pii_detector, service, src_calls, src_lists, src_result, src_pc>>
lvars == <<payload, payload_in, detector_answers, redacted_payload,
           processing_stats, pl_strategy, pl_pc>>
fvars == <<fs_original, fs_file, fs_backup, fs_payloads, fs_result, fs_pc>>
yvars == <<vvars, qvars, lvars, fvars>>

vars == <<text, rvars, tvars, svars, xvars, yvars>>

\* ------------------------------------------------------- Python helpers
Min(a, b) == IF a < b THEN a ELSE b

\* s[a:b] for 0 <= a, 0 <= b (Python clamps both ends to len(s)).
Slice(s, a, b) == SubSeq(s, Min(a, Len(s)) + 1, Min(b, Len(s)))

Front(s) == SubSeq(s, 1, Len(s) - 1)

RECURSIVE Concat(_)
\* all_entities.extend(entity_list) for every list, in order.
Concat(lists) ==
    IF lists = <<>> THEN <<>> ELSE Head(lists) \o Concat(Tail(lists))

\* ------------------------------------------------------------ PIIEntity
PIIEntity(t, ty, s, e, c, src) ==
    [text |-> t, entity_type |-> ty, start_pos |-> s, end_pos |-> e,
     confidence |-> c, source |-> src]

\* No entity: the value of candidate before the first iteration.
NoEntity == [text |-> <<>>, entity_type |-> "NONE", start_pos |-> 0,
             end_pos |-> 0, confidence |-> 0, source |-> "NONE"]

\* ------------------------------------------------------ detection_utils
\* sorted(entities, key=lambda x: x.start_pos): Python's sort is stable.
RECURSIVE InsertByStart(_, _)
InsertByStart(s, e) ==
    IF s = <<>> THEN <<e>>
    ELSE IF s[Len(s)].start_pos <= e.start_pos THEN Append(s, e)
    ELSE Append(InsertByStart(Front(s), e), s[Len(s)])

RECURSIVE sorted_by_start(_)
sorted_by_start(ents) ==
    IF ents = <<>> THEN <<>>
    ELSE InsertByStart(sorted_by_start(Front(ents)), ents[Len(ents)])

\* Faulty variant: the second comparison is against end_pos, so a candidate
\* lying inside an accepted entity is not seen as overlapping.
entities_overlap_wrong_end(entity1, entity2) ==
    /\ entity1.start_pos < entity2.end_pos
    /\ entity1.end_pos > entity2.end_pos

entities_overlap(entity1, entity2) ==
    /\ entity1.start_pos < entity2.end_pos
    /\ entity1.end_pos > entity2.start_pos

\* Index of the first accepted entity the candidate overlaps (the inner for
\* loop breaks there), 0 when it overlaps none.
FirstOverlap(dedup, entity) ==
    LET hits == {i \in 1..Len(dedup) : entities_overlap(entity, dedup[i])}
    IN IF hits = {} THEN 0 ELSE CHOOSE i \in hits : \A j \in hits : i <= j

\* Faulty variant: the confidence comparison is inverted.
DedupStep_keep_lower(dedup, entity) ==
    LET i == FirstOverlap(dedup, entity)
    IN IF i = 0 THEN Append(dedup, entity)
       ELSE IF entity.confidence < dedup[i].confidence
            THEN [dedup EXCEPT ![i] = entity]
            ELSE dedup

\* Faulty variant: the confidence comparison is not strict.
DedupStep_replace_on_tie(dedup, entity) ==
    LET i == FirstOverlap(dedup, entity)
    IN IF i = 0 THEN Append(dedup, entity)
       ELSE IF entity.confidence >= dedup[i].confidence
            THEN [dedup EXCEPT ![i] = entity]
            ELSE dedup

\* Faulty variant: only the first entity is ever appended.
DedupStep_drop_non_overlapping(dedup, entity) ==
    LET i == FirstOverlap(dedup, entity)
    IN IF i = 0 THEN (IF dedup = <<>> THEN Append(dedup, entity) ELSE dedup)
       ELSE IF entity.confidence > dedup[i].confidence
            THEN [dedup EXCEPT ![i] = entity]
            ELSE dedup

\* Faulty variant: the winner is widened to the start of the entity it replaces.
DedupStep_widen(dedup, entity) ==
    LET i == FirstOverlap(dedup, entity)
    IN IF i = 0 THEN Append(dedup, entity)
       ELSE IF entity.confidence > dedup[i].confidence
            THEN [dedup EXCEPT ![i] =
                     [entity EXCEPT !.start_pos = dedup[i].start_pos]]
            ELSE dedup

\* Faulty variant: a candidate that overlaps nothing is put in front of the
\* accepted list.
DedupStep_prepend(dedup, entity) ==
    LET i == FirstOverlap(dedup, entity)
    IN IF i = 0 THEN <<entity>> \o dedup
       ELSE IF entity.confidence > dedup[i].confidence
            THEN [dedup EXCEPT ![i] = entity]
            ELSE dedup

\* One iteration of the outer for loop: the body of "for entity in
\* sorted_entities".
DedupStep(dedup, entity) ==
    LET i == FirstOverlap(dedup, entity)
    IN IF i = 0 THEN Append(dedup, entity)
       ELSE IF entity.confidence > dedup[i].confidence
            THEN [dedup EXCEPT ![i] = entity]
            ELSE dedup

RECURSIVE DedupScan(_, _)
DedupScan(dedup, rest) ==
    IF rest = <<>> THEN dedup
    ELSE DedupScan(DedupStep(dedup, Head(rest)), Tail(rest))

deduplicate_entities(ents) ==
    IF ents = <<>> THEN <<>>
    ELSE sorted_by_start(DedupScan(<<>>, sorted_by_start(ents)))

merge_entity_lists(lists) == deduplicate_entities(Concat(lists))

\* ------------------------------------------------ redaction_strategies
Star == "*"

Stars(n) == [i \in 1..n |-> Star]

IsSpace(c) == c \in {" ", "\t", "\n"}

RECURSIVE LStrip(_)
LStrip(s) == IF s # <<>> /\ IsSpace(Head(s)) THEN LStrip(Tail(s)) ELSE s

RECURSIVE RStrip(_)
RStrip(s) == IF s # <<>> /\ IsSpace(s[Len(s)]) THEN RStrip(Front(s)) ELSE s

\* str.strip()
Strip(s) == RStrip(LStrip(s))

Digits == {"0", "1", "2", "3", "4", "5", "6", "7", "8", "9"}

RECURSIVE Filter(_, _)
\* ''.join(filter(str.isdigit, text)) with set = Digits
Filter(s, set) ==
    IF s = <<>> THEN <<>>
    ELSE (IF Head(s) \in set THEN <<Head(s)>> ELSE <<>>) \o Filter(Tail(s), set)

\* Index of the first c in s, 0 when there is none.
IndexOf(s, c) ==
    LET hits == {i \in 1..Len(s) : s[i] = c}
    IN IF hits = {} THEN 0 ELSE CHOOSE i \in hits : \A j \in hits : i <= j

\* The characters of the entity type names.
TypeChars ==
    (  "EMAIL" :> <<"E","M","A","I","L">>
    @@ "PHONE" :> <<"P","H","O","N","E">>
    @@ "PERSON" :> <<"P","E","R","S","O","N">>
    @@ "SSN" :> <<"S","S","N">>
    @@ "ADDRESS" :> <<"A","D","D","R","E","S","S">>
    @@ "ZIP_CODE" :> <<"Z","I","P","_","C","O","D","E">>
    @@ "CREDIT_CARD" :> <<"C","R","E","D","I","T","_","C","A","R","D">>
    @@ "CUSTOMER_ACCOUNT" :> <<"C","U","S","T","O","M","E","R","_","A","C","C","O","U","N","T">>
    @@ "NAME" :> <<"N","A","M","E">>
    @@ "OTHER" :> <<"O","T","H","E","R">>
    @@ "DATE" :> <<"D","A","T","E">>)

Redacted == <<"R","E","D","A","C","T","E","D">>

Bracket(s) == <<"[">> \o s \o <<"]">>

\* PlaceholderStrategy.placeholders
placeholders ==
    (  "EMAIL" :> Bracket(Redacted \o <<"_">> \o TypeChars["EMAIL"])
    @@ "PHONE" :> Bracket(Redacted \o <<"_">> \o TypeChars["PHONE"])
    @@ "PERSON" :> Bracket(Redacted \o <<"_">> \o TypeChars["PERSON"])
    @@ "SSN" :> Bracket(Redacted \o <<"_">> \o TypeChars["SSN"])
    @@ "ADDRESS" :> Bracket(Redacted \o <<"_">> \o TypeChars["ADDRESS"])
    @@ "ZIP_CODE" :> Bracket(Redacted \o <<"_", "Z", "I", "P">>)
    @@ "CREDIT_CARD" :> Bracket(Redacted \o <<"_">> \o TypeChars["CREDIT_CARD"])
    @@ "CUSTOMER_ACCOUNT" :> Bracket(Redacted \o <<"_", "A","C","C","O","U","N","T">>)
    @@ "NAME" :> Bracket(Redacted \o <<"_">> \o TypeChars["NAME"])
    @@ "OTHER" :> Bracket(Redacted))

\* Faulty variant: a token made from the name of a type that is not in the
\* table, f"[REDACTED_{entity_type}]".
PlaceholderRedact_typed_fallback(original_text, entity_type) ==
    IF entity_type \in DOMAIN placeholders
    THEN placeholders[entity_type]
    ELSE Bracket(Redacted \o <<"_">> \o TypeChars[entity_type])

\* PlaceholderStrategy.redact: self.placeholders.get(entity_type, '[REDACTED]')
PlaceholderRedact(original_text, entity_type) ==
    IF entity_type \in DOMAIN placeholders
    THEN placeholders[entity_type]
    ELSE Bracket(Redacted)

\* Faulty variant: the tiers are applied to the snippet as given, not to
\* original_text.strip().
MaskRedact_unstripped(original_text, entity_type) ==
    LET t == original_text
    IN IF Len(t) <= 2 THEN Stars(Len(t))
       ELSE IF Len(t) <= 4
            THEN <<t[1]>> \o Stars(Len(t) - 2) \o <<t[Len(t)]>>
            ELSE SubSeq(t, 1, 2) \o Stars(Len(t) - 3) \o <<t[Len(t)]>>

\* MaskStrategy.redact
MaskRedact(original_text, entity_type) ==
    LET t == Strip(original_text)
    IN IF Len(t) <= 2 THEN Stars(Len(t))
       ELSE IF Len(t) <= 4
            THEN <<t[1]>> \o Stars(Len(t) - 2) \o <<t[Len(t)]>>
            ELSE SubSeq(t, 1, 2) \o Stars(Len(t) - 3) \o <<t[Len(t)]>>

\* RemoveStrategy.redact
RemoveRedact(original_text, entity_type) == <<>>

\* Faulty variant: the three tiers of MaskStrategy in place of the two
\* of _default_mask.
default_mask_three_tiers(t) ==
    IF Len(t) <= 2 THEN Stars(Len(t))
    ELSE IF Len(t) <= 4
         THEN <<t[1]>> \o Stars(Len(t) - 2) \o <<t[Len(t)]>>
         ELSE SubSeq(t, 1, 2) \o Stars(Len(t) - 3) \o <<t[Len(t)]>>

\* PartialStrategy._default_mask
default_mask(t) ==
    IF Len(t) <= 2 THEN Stars(Len(t))
    ELSE <<t[1]>> \o Stars(Len(t) - 2) \o <<t[Len(t)]>>

\* Faulty variant: the EMAIL branch masks the whole username.
PartialRedact_masks_username(original_text, entity_type) ==
    LET t == Strip(original_text)
        at == IndexOf(t, "@")
    IN IF entity_type = "EMAIL" /\ at # 0
       THEN Stars(Len(SubSeq(t, 1, at - 1))) \o SubSeq(t, at, Len(t))
       ELSE default_mask(t)

\* PartialStrategy.redact
PartialRedact(original_text, entity_type) ==
    LET t == Strip(original_text)
        digits_only == Filter(t, Digits)
        last4 == SubSeq(digits_only, Len(digits_only) - 3, Len(digits_only))
    IN IF entity_type = "EMAIL"
       THEN IF IndexOf(t, "@") # 0
            THEN LET at == IndexOf(t, "@")
                     username == SubSeq(t, 1, at - 1)
                     domain == SubSeq(t, at + 1, Len(t))
                     masked_username ==
                         IF username # <<>>
                         THEN <<username[1]>> \o Stars(Len(username) - 1)
                         ELSE <<Star>>
                 IN masked_username \o <<"@">> \o domain
            ELSE default_mask(t)
       ELSE IF entity_type = "PHONE"
       THEN IF Len(digits_only) >= 4
            THEN <<"*","*","*","-","*","*","*","-">> \o last4
            ELSE default_mask(t)
       ELSE IF entity_type = "CREDIT_CARD"
       THEN IF Len(digits_only) >= 4
            THEN <<"*","*","*","*","-","*","*","*","*","-","*","*","*","*","-">>
                 \o last4
            ELSE default_mask(t)
       ELSE default_mask(t)

\* hexdigest()[:8]: the number of hex characters kept.
HashLen == 8

HexDigits == <<"0","1","2","3","4","5","6","7","8","9","a","b","c","d","e","f">>

\* Code points of the characters the texts are made of.
Ord(c) ==
    CASE c = " " -> 32 [] c = "@" -> 64 [] c = "1" -> 49 [] c = "2" -> 50
      [] c = "a" -> 97 [] c = "b" -> 98 [] c = "c" -> 99 [] OTHER -> 63

RECURSIVE Mix(_, _)
Mix(h, s) ==
    IF s = <<>> THEN h
    ELSE Mix((h * 31 + Ord(Head(s)) + Len(s)) % 65536, Tail(s))

\* hashlib.md5(original_text.encode()).hexdigest()[:8].  MD5 itself is not
\* computed: the digest is a fixed-width hex string that is a function of
\* the exact snippet (here without collisions on the texts of the model).
Digest(original_text) ==
    LET h == Mix(7, original_text)
    IN [i \in 1..HashLen |->
           HexDigits[((h \div (IF i % 4 = 1 THEN 4096 ELSE IF i % 4 = 2 THEN 256
                               ELSE IF i % 4 = 3 THEN 16 ELSE 1)) % 16) + 1]]

\* f"[{entity_type}_{hash_str}]"
HashFormat(original_text, entity_type) ==
    Bracket(TypeChars[entity_type] \o <<"_">> \o Digest(original_text))

\* HashStrategy.__init__: self.hash_cache = {}
EmptyCache == [k \in {} |-> <<>>]

\* Faulty variant: the cache is written but never consulted.
HashRedact_uncached(cache, original_text, entity_type) ==
    LET redacted == HashFormat(original_text, entity_type)
    IN [out |-> redacted,
        cache |-> [k \in DOMAIN cache \cup {original_text} |->
                      IF k = original_text THEN redacted ELSE cache[k]]]

\* HashStrategy.redact: the replacement returned and the cache afterwards.
HashRedact(cache, original_text, entity_type) ==
    IF original_text \in DOMAIN cache
    THEN [out |-> cache[original_text], cache |-> cache]
    ELSE LET redacted == HashFormat(original_text, entity_type)
         IN [out |-> redacted,
             cache |-> [k \in DOMAIN cache \cup {original_text} |->
                           IF k = original_text THEN redacted ELSE cache[k]]]

\* STRATEGIES
STRATEGIES == {"placeholder", "mask", "remove", "hash", "partial"}

\* STRATEGIES: the class registered under each name.
Registry ==
    (  "placeholder" :> "PlaceholderStrategy"
    @@ "mask" :> "MaskStrategy"
    @@ "remove" :> "RemoveStrategy"
    @@ "hash" :> "HashStrategy"
    @@ "partial" :> "PartialStrategy")

\* STRATEGIES[strategy_name](): a new instance of the class.  Only a
\* HashStrategy has a hash_cache attribute; it is left empty for the others.
Instantiate(class) == [class |-> class, hash_cache |-> EmptyCache]

\* Faulty variant: an unknown name falls back to the placeholder strategy.
get_strategy_default(name) ==
    IF name \notin STRATEGIES
    THEN [raised |-> "none", strategy |-> Instantiate("PlaceholderStrategy")]
    ELSE [raised |-> "none", strategy |-> Instantiate(Registry[name])]

\* get_strategy(strategy_name): the exception raised, or the instance.
get_strategy(name) ==
    IF name \notin STRATEGIES
    THEN [raised |-> "ValueError"]
    ELSE [raised |-> "none", strategy |-> Instantiate(Registry[name])]

\* redact(original_text, entity_type) of an instance of class whose hash
\* cache is cache: the replacement and the cache afterwards.
ClassRedact(class, cache, original_text, entity_type) ==
    CASE class = "PlaceholderStrategy" ->
           [out |-> PlaceholderRedact(original_text, entity_type), cache |-> cache]
      [] class = "MaskStrategy" ->
           [out |-> MaskRedact(original_text, entity_type), cache |-> cache]
      [] class = "RemoveStrategy" ->
           [out |-> RemoveRedact(original_text, entity_type), cache |-> cache]
      [] class = "HashStrategy" -> HashRedact(cache, original_text, entity_type)
      [] class = "PartialStrategy" ->
           [out |-> PartialRedact(original_text, entity_type), cache |-> cache]

\* self.strategy.redact(original_text, entity_type) on the instance of the
\* variant registered under name, whose hash cache is cache.
StrategyRedact(name, cache, original_text, entity_type) ==
    ClassRedact(Registry[name], cache, original_text, entity_type)

\* Faulty variant: hash_cache as a class attribute, one mapping that every
\* HashStrategy instance reads (an entry stays with its first writer).
SelfCache_class_level(insts, i) ==
    LET holders(k) == {j \in 1..Len(insts) : k \in DOMAIN insts[j].strategy.hash_cache}
        first(k) == CHOOSE j \in holders(k) : \A h \in holders(k) : j <= h
    IN [k \in UNION {DOMAIN insts[j].strategy.hash_cache : j \in 1..Len(insts)} |->
           insts[first(k)].strategy.hash_cache[k]]

\* self.hash_cache of the strategy of the i-th redactor.
SelfCache(insts, i) == insts[i].strategy.hash_cache

\* ------------------------------------------------- inputs of the merge
\* The document: "aba..." (its content is irrelevant to the merge).
DocText == [i \in 1..TextLen |-> IF i % 2 = 1 THEN "a" ELSE "b"]

\* Confidence scores, in percent (0.90 and 0.95).
Confidences == {90, 95}

Spans == {sp \in (0..TextLen) \X (0..TextLen) : sp[1] < sp[2]}

\* A detection before its detector stamps type and source on it.
Detections == Spans \X Confidences

\* A detector's PIIEntity for the span sp of doc: its text is doc[start:end].
Detected(doc, sp, ty, c, src) ==
    PIIEntity(Slice(doc, sp[1], sp[2]), ty, sp[1], sp[2], c, src)

EntityOf(d, src) ==
    Detected(DocText, d[1], IF src = "REGEX" THEN "EMAIL" ELSE "NAME", d[2], src)

\* <<regex_entities, comprehend_entities>>: the first k detections of ds are
\* the regex detector's, the others Comprehend's.
SplitLists(ds, k) ==
    << [i \in 1..k |-> EntityOf(ds[i], "REGEX")],
       [i \in 1..(Len(ds) - k) |-> EntityOf(ds[k + i], "COMPREHEND")] >>

\* ------------------------------------------------- idle components
\* No redact_text call in progress.
IdleRedact ==
    /\ entities = <<>>
    /\ sorted_desc = <<>>
    /\ red_idx = 0
    /\ redacted_text = <<>>
    /\ redaction_metadata = <<>>
    /\ result = "none"
    /\ tpc = "idle"

\* No merge_entity_lists call in progress.
IdleReconcile ==
    /\ entity_lists = <<>>
    /\ sorted_entities = <<>>
    /\ deduplicated = <<>>
    /\ scan_idx = 0
    /\ candidate = NoEntity
    /\ merged = <<>>
    /\ rpc = "idle"

\* The default TextRedactor('placeholder'), not yet used.
IdleStrategy ==
    /\ strategy_name = "placeholder"
    /\ hash_cache = EmptyCache
    /\ calls = <<>>

\* No stateless strategy call made.
IdlePure ==
    /\ p_text = <<>>
    /\ p_type = "NONE"
    /\ p_strategy = "none"
    /\ p_out = <<>>

\* No further TextRedactor constructed.
IdleInstances ==
    /\ redactors = <<>>
    /\ ctor_log = <<>>
    /\ inst_log = <<>>

\* No RegexDetector.detect call in progress.
IdleDetect ==
    /\ confidence_score = 80
    /\ det_entities = <<>>
    /\ det_pattern = 0
    /\ det_matches = <<>>
    /\ det_log = <<>>
    /\ det_pc = "idle"

IdleOthers == IdlePure /\ IdleInstances /\ IdleDetect

\* No validate_redaction call made.
IdleValidate ==
    /\ val_result = "none"
    /\ validation = <<>>

\* No PIIDetector in use.
IdleSources ==
    /\ pii_detector = "none"
    /\ service = "none"
    /\ src_calls = <<>>
    /\ src_lists = <<>>
    /\ src_result = <<>>
    /\ src_pc = "idle"

\* No payload processor in use.
IdlePayload ==
    /\ payload = "none"
    /\ payload_in = "none"
    /\ detector_answers = "none"
    /\ redacted_payload = "none"
    /\ processing_stats = "none"
    /\ pl_strategy = "placeholder"
    /\ pl_pc = "idle"

\* A path at which there is no file, and a file with its content.
NoFile == [exists |-> FALSE, content |-> <<>>]

File(content) == [exists |-> TRUE, content |-> content]

\* No file processor in use.
IdleFile ==
    /\ fs_original = NoFile
    /\ fs_file = NoFile
    /\ fs_backup = NoFile
    /\ fs_payloads = <<>>
    /\ fs_result = "none"
    /\ fs_pc = "idle"

IdleLater == IdleValidate /\ IdleSources /\ IdlePayload /\ IdleFile

\* ------------------------------------------------- merge_entity_lists
InitReconcile ==
    /\ IdleLater
    /\ IdleOthers
    /\ IdleRedact
    /\ IdleStrategy
    /\ text = DocText
    /\ \E m \in 0..MaxEntities : \E k \in 0..m : \E ds \in [1..m -> Detections] :
          entity_lists = SplitLists(ds, k)
    /\ sorted_entities = <<>>
    /\ deduplicated = <<>>
    /\ scan_idx = 0
    /\ candidate = NoEntity
    /\ merged = <<>>
    /\ rpc = "call"

\* merge_entity_lists up to the first iteration of the scan; the empty input
\* returns [] at once.
MergeCall ==
    /\ rpc = "call"
    /\ LET all_entities == Concat(entity_lists)
       IN IF all_entities = <<>>
          THEN /\ rpc' = "done"
               /\ merged' = <<>>
               /\ UNCHANGED <<sorted_entities, scan_idx>>
          ELSE /\ rpc' = "scan"
               /\ sorted_entities' = sorted_by_start(all_entities)
               /\ scan_idx' = 1
               /\ UNCHANGED merged
    /\ deduplicated' = <<>>
    /\ UNCHANGED <<text, entity_lists, candidate, tvars, svars, xvars, yvars>>

\* One iteration of the scan; the last one also re-sorts and returns.
ScanStep ==
    /\ rpc = "scan"
    /\ scan_idx <= Len(sorted_entities)
    /\ candidate' = sorted_entities[scan_idx]
    /\ deduplicated' = DedupStep(deduplicated, sorted_entities[scan_idx])
    /\ scan_idx' = scan_idx + 1
    /\ IF scan_idx = Len(sorted_entities)
       THEN /\ rpc' = "done"
            /\ merged' = sorted_by_start(deduplicated')
       ELSE UNCHANGED <<rpc, merged>>
    /\ UNCHANGED <<text, entity_lists, sorted_entities, tvars, svars, xvars, yvars>>

NextReconcile == MergeCall \/ ScanStep

SpecReconcile == InitReconcile /\ [][NextReconcile]_vars

\* --------------------------------------------------------- text_redactor
\* sorted(entities, key=lambda x: x.start_pos, reverse=True): stable too.
RECURSIVE InsertByStartReverse(_, _)
InsertByStartReverse(s, e) ==
    IF s = <<>> THEN <<e>>
    ELSE IF s[Len(s)].start_pos >= e.start_pos THEN Append(s, e)
    ELSE Append(InsertByStartReverse(Front(s), e), s[Len(s)])

\* Faulty variant: reverse=True is missing.
sorted_by_start_ascending(ents) == sorted_by_start(ents)

RECURSIVE sorted_by_start_reverse(_)
sorted_by_start_reverse(ents) ==
    IF ents = <<>> THEN <<>>
    ELSE InsertByStartReverse(sorted_by_start_reverse(Front(ents)),
                              ents[Len(ents)])

\* Faulty variant: the tail starts at start_pos, so the snippet stays.
Splice_keep_entity(working, entity, replacement) ==
    Slice(working, 0, entity.start_pos)
        \o replacement
        \o Slice(working, entity.start_pos, Len(working))

\* Faulty variant: the tail starts len(replacement) after start_pos.
Splice_fixed_width(working, entity, replacement) ==
    Slice(working, 0, entity.start_pos)
        \o replacement
        \o Slice(working, entity.start_pos + Len(replacement), Len(working))

\* redacted_text[:entity.start_pos] + replacement + redacted_text[entity.end_pos:]
Splice(working, entity, replacement) ==
    Slice(working, 0, entity.start_pos)
        \o replacement
        \o Slice(working, entity.end_pos, Len(working))

\* Faulty variant: original_text records the replacement.
AuditEntry_wrong_text(entity, replacement) ==
    [original_text |-> replacement,
     entity_type |-> entity.entity_type,
     start_pos |-> entity.start_pos,
     end_pos |-> entity.end_pos,
     replacement |-> replacement,
     confidence |-> entity.confidence,
     source |-> entity.source]

\* The dict appended to redaction_metadata.
AuditEntry(entity, replacement) ==
    [original_text |-> entity.text,
     entity_type |-> entity.entity_type,
     start_pos |-> entity.start_pos,
     end_pos |-> entity.end_pos,
     replacement |-> replacement,
     confidence |-> entity.confidence,
     source |-> entity.source]

\* RedactionResult; redacted_at is the clock reading, kept opaque.
RedactionResult(original, redacted, entities_redacted, strategy) ==
    [original_text |-> original,
     redacted_text |-> redacted,
     entities_redacted |-> entities_redacted,
     redaction_count |-> Len(entities_redacted),
     strategy_used |-> strategy,
     redacted_at |-> "utcnow"]

\* Faulty variant: the text is stripped on the way.
create_empty_stripped(t, strategy) ==
    [original_text |-> t,
     redacted_text |-> Strip(t),
     entities_redacted |-> <<>>,
     redaction_count |-> 0,
     strategy_used |-> strategy,
     redacted_at |-> "utcnow"]

\* RedactionResult.create_empty
create_empty(t, strategy) ==
    [original_text |-> t,
     redacted_text |-> t,
     entities_redacted |-> <<>>,
     redaction_count |-> 0,
     strategy_used |-> strategy,
     redacted_at |-> "utcnow"]

\* ------------------------------------------------ inputs of redact_text
Alphabet == {"a", "b", " "}

Texts == UNION {[1..n -> Alphabet] : n \in 0..TextLen}

\* Entity types of the entities handed to redact_text, each with the
\* confidence and source of the detector that reports it.
RedactTypes == {"EMAIL", "PHONE"}

RedactEntity(doc, sp, ty) ==
    IF ty = "EMAIL" THEN Detected(doc, sp, ty, 80, "REGEX")
    ELSE Detected(doc, sp, ty, 95, "COMPREHEND")

InBoundsEntities(doc) ==
    {RedactEntity(doc, sp, ty) :
        sp \in {q \in (0..Len(doc)) \X (0..Len(doc)) : q[1] < q[2]},
        ty \in RedactTypes}

RECURSIVE DisjointLists(_, _)
\* What detect_pii hands on: lists of at most n in-bounds entities of doc, no
\* two overlapping, in every order.
DisjointLists(doc, n) ==
    IF n = 0 THEN {<<>>}
    ELSE LET shorter == DisjointLists(doc, n - 1)
         IN shorter \cup
            {Append(l, e) : <<l, e>> \in
                {le \in shorter \X InBoundsEntities(doc) :
                    /\ Len(le[1]) = n - 1
                    /\ \A i \in 1..Len(le[1]) : ~entities_overlap(le[2], le[1][i])}}

\* ---------------------------------------------- TextRedactor.redact_text
InitRedact ==
    /\ IdleLater
    /\ IdleReconcile
    /\ IdleOthers
    /\ strategy_name \in STRATEGIES
    /\ hash_cache = EmptyCache
    /\ calls = <<>>
    /\ text \in Texts
    /\ entities \in DisjointLists(text, MaxEntities)
    /\ sorted_desc = <<>>
    /\ red_idx = 0
    /\ redacted_text = <<>>
    /\ redaction_metadata = <<>>
    /\ result = "none"
    /\ tpc = "call"

\* redact_text up to the first iteration of its loop; an empty entity list
\* returns create_empty at once.
RedactCall ==
    /\ tpc = "call"
    /\ IF entities = <<>>
       THEN /\ result' = create_empty(text, strategy_name)
            /\ tpc' = "done"
            /\ UNCHANGED <<sorted_desc, red_idx, redacted_text>>
       ELSE /\ sorted_desc' = sorted_by_start_reverse(entities)
            /\ redacted_text' = text
            /\ red_idx' = 1
            /\ tpc' = "loop"
            /\ UNCHANGED result
    /\ redaction_metadata' = <<>>
    /\ UNCHANGED <<text, entities, rvars, svars, xvars, yvars>>

\* One iteration of the loop; the last one also builds and returns the result.
RedactStep ==
    /\ tpc = "loop"
    /\ red_idx <= Len(sorted_desc)
    /\ LET entity == sorted_desc[red_idx]
           r == StrategyRedact(strategy_name, hash_cache,
                               entity.text, entity.entity_type)
       IN /\ hash_cache' = r.cache
          /\ redacted_text' = Splice(redacted_text, entity, r.out)
          /\ redaction_metadata' =
                 Append(redaction_metadata, AuditEntry(entity, r.out))
    /\ red_idx' = red_idx + 1
    /\ IF red_idx = Len(sorted_desc)
       THEN /\ result' = RedactionResult(text, redacted_text',
                                         redaction_metadata', strategy_name)
            /\ tpc' = "done"
       ELSE UNCHANGED <<result, tpc>>
    /\ UNCHANGED <<text, entities, sorted_desc, strategy_name, calls, rvars, xvars, yvars>>

NextRedact == RedactCall \/ RedactStep

SpecRedact == InitRedact /\ [][NextRedact]_vars

\* ------------------------------------------- direct HashStrategy.redact
\* Snippets and types of the direct calls; "a" and "a " are different keys.
HashSnippets == UNION {[1..n -> {"a", " "}] : n \in 1..MaxSnippetLen}

HashTypes == {"EMAIL", "PHONE"}

\* A fresh HashStrategy instance (get_strategy('hash')).
InitHash ==
    /\ IdleLater
    /\ IdleReconcile
    /\ IdleOthers
    /\ IdleRedact
    /\ text = <<>>
    /\ strategy_name = "hash"
    /\ hash_cache = EmptyCache
    /\ calls = <<>>

\* strategy.redact(original_text, entity_type) on the instance; the call and
\* what it returned are logged.
HashCall(original_text, entity_type) ==
    /\ Len(calls) < MaxCalls
    /\ LET r == HashRedact(hash_cache, original_text, entity_type)
       IN /\ hash_cache' = r.cache
          /\ calls' = Append(calls, [original_text |-> original_text,
                                     entity_type |-> entity_type,
                                     out |-> r.out])
    /\ UNCHANGED <<text, strategy_name, rvars, tvars, xvars, yvars>>

NextHash ==
    \E original_text \in HashSnippets : \E entity_type \in HashTypes :
        HashCall(original_text, entity_type)

SpecHash == InitHash /\ [][NextHash]_vars

\* ------------------------------------------ stateless strategy.redact
PureAlphabet == {"a", "b", "@", "1", " "}

PureSnippets == UNION {[1..n -> PureAlphabet] : n \in 0..PureLen}

\* ZIP_CODE and OTHER are in the placeholder table, DATE is in no table.
PureTypes == {"EMAIL", "PHONE", "CREDIT_CARD", "NAME", "ZIP_CODE", "OTHER", "DATE"}

\* The snippet and the type a strategy without state is about to be given.
InitStrategy ==
    /\ IdleLater
    /\ IdleReconcile
    /\ IdleRedact
    /\ IdleStrategy
    /\ IdleInstances
    /\ IdleDetect
    /\ text = <<>>
    /\ \E n \in 0..PureLen : p_text \in [1..n -> PureAlphabet]
    /\ p_type \in PureTypes
    /\ p_strategy = "none"
    /\ p_out = <<>>

\* get_strategy(name).redact(p_text, p_type)
PureCall(name) ==
    /\ p_strategy' = name
    /\ p_out' = StrategyRedact(name, EmptyCache, p_text, p_type).out
    /\ UNCHANGED <<text, p_text, p_type, rvars, tvars, svars, ivars, dvars, yvars>>

PlaceholderCall == PureCall("placeholder")

MaskCall == PureCall("mask")

RemoveCall == PureCall("remove")

PartialCall == PureCall("partial")

NextStrategy == PlaceholderCall \/ MaskCall \/ RemoveCall \/ PartialCall

SpecStrategy == InitStrategy /\ [][NextStrategy]_vars

\* ------------------------------------- TextRedactor(strategy_name), redact
\* Names a redactor is asked for: the five registered ones and two that
\* are not (a different case, the empty name).
StrategyNames == STRATEGIES \cup {"Hash", ""}

InstSnippets == {<<"a">>, <<"b">>}

InitInstances ==
    /\ IdleLater
    /\ IdleReconcile
    /\ IdleRedact
    /\ IdleStrategy
    /\ IdlePure
    /\ IdleDetect
    /\ text = <<>>
    /\ redactors = <<>>
    /\ ctor_log = <<>>
    /\ inst_log = <<>>

\* TextRedactor(name): __init__ calls get_strategy(name); an exception
\* leaves no redactor behind.
TextRedactorInit(name) ==
    /\ Len(ctor_log) < MaxRedactors
    /\ LET r == get_strategy(name)
       IN /\ ctor_log' = Append(ctor_log, [strategy_name |-> name,
                                           raised |-> r.raised])
          /\ redactors' =
                IF r.raised = "none"
                THEN Append(redactors, [strategy_name |-> name,
                                        strategy |-> r.strategy])
                ELSE redactors
    /\ UNCHANGED <<text, inst_log, rvars, tvars, svars, pvars, dvars, yvars>>

\* redactors[i].strategy.redact(original_text, entity_type)
InstanceCall(i, original_text, entity_type) ==
    /\ i \in 1..Len(redactors)
    /\ Len(inst_log) < MaxInstCalls
    /\ LET r == ClassRedact(redactors[i].strategy.class, SelfCache(redactors, i),
                            original_text, entity_type)
       IN /\ redactors' = [redactors EXCEPT ![i].strategy.hash_cache = r.cache]
          /\ inst_log' = Append(inst_log, [redactor |-> i,
                                           original_text |-> original_text,
                                           entity_type |-> entity_type,
                                           out |-> r.out])
    /\ UNCHANGED <<text, ctor_log, rvars, tvars, svars, pvars, dvars, yvars>>

NextInstances ==
    \/ \E name \in StrategyNames : TextRedactorInit(name)
    \/ \E i \in 1..MaxRedactors : \E original_text \in InstSnippets :
          \E entity_type \in HashTypes : InstanceCall(i, original_text, entity_type)

SpecInstances == InitInstances /\ [][NextInstances]_vars

\* ----------------------------------------------- RegexDetector.detect
\* PII_PATTERNS in the order of iteration: the entity type of each pattern
\* and the number of capture groups it defines.
PII_PATTERNS ==
    << [entity_type |-> "EMAIL", groups |-> 0],
       [entity_type |-> "EMAIL", groups |-> 0],
       [entity_type |-> "PHONE", groups |-> 0],
       [entity_type |-> "PHONE", groups |-> 0],
       [entity_type |-> "PHONE", groups |-> 0],
       [entity_type |-> "SSN", groups |-> 0],
       [entity_type |-> "ZIP_CODE", groups |-> 0],
       [entity_type |-> "ADDRESS", groups |-> 1],
       [entity_type |-> "ADDRESS", groups |-> 0],
       [entity_type |-> "CREDIT_CARD", groups |-> 0],
       [entity_type |-> "NAME", groups |-> 1],
       [entity_type |-> "NAME", groups |-> 1] >>

\* FALSE_POSITIVES
FALSE_POSITIVES ==
    (  "EMAIL" :> {<<"@", "g", "m", "a", "i", "l">>,
                  <<"@", "y", "a", "h", "o", "o">>,
                  <<"@", "h", "o", "t", "m", "a", "i", "l">>}
    @@ "NAME" :> {<<"T", "e", "s", "t">>,
                  <<"t", "e", "s", "t">>,
                  <<"M", "y", " ", "N", "a", "m", "e">>,
                  <<"L", "a", "s", "t", " ", "N", "a", "m", "e">>}
    @@ "ADDRESS" :> {<<"N", "e", "w", " ", "Y", "o", "r", "k">>,
                  <<"T", "e", "s", "t", " ", "L", "a", "n", "e">>})


UpperCase ==
    <<"A","B","C","D","E","F","G","H","I","J","K","L","M",
      "N","O","P","Q","R","S","T","U","V","W","X","Y","Z">>

LowerCase ==
    <<"a","b","c","d","e","f","g","h","i","j","k","l","m",
      "n","o","p","q","r","s","t","u","v","w","x","y","z">>

\* str.lower()
Lower(s) ==
    [i \in 1..Len(s) |->
        IF \E j \in 1..Len(UpperCase) : UpperCase[j] = s[i]
        THEN LowerCase[CHOOSE j \in 1..Len(UpperCase) : UpperCase[j] = s[i]]
        ELSE s[i]]

\* Faulty variant: the entries are compared as written, without lower().
is_false_positive_case_sensitive(entity_type, t) ==
    /\ entity_type \in DOMAIN FALSE_POSITIVES
    /\ t \in FALSE_POSITIVES[entity_type]

\* is_false_positive
is_false_positive(entity_type, t) ==
    /\ entity_type \in DOMAIN FALSE_POSITIVES
    /\ Lower(t) \in {Lower(fp) : fp \in FALSE_POSITIVES[entity_type]}

\* A match object: match.start(), match.end() and the spans of its groups.
Match(s, e, gs) == [start |-> s, end |-> e, groups |-> gs]

Group(s, e) == [start |-> s, end |-> e]

\* Faulty variant: the captured group is used for every pattern that has one.
create_entity_any_group(match, entity_type, doc, confidence) ==
    IF match.groups # <<>>
    THEN PIIEntity(Slice(doc, match.groups[1].start, match.groups[1].end),
                   entity_type, match.groups[1].start, match.groups[1].end,
                   confidence, "REGEX")
    ELSE PIIEntity(Slice(doc, match.start, match.end), entity_type,
                   match.start, match.end, confidence, "REGEX")

\* RegexDetector._create_entity_from_match
create_entity_from_match(match, entity_type, doc, confidence) ==
    IF entity_type = "NAME" /\ match.groups # <<>>
    THEN PIIEntity(Slice(doc, match.groups[1].start, match.groups[1].end),
                   entity_type, match.groups[1].start, match.groups[1].end,
                   confidence, "REGEX")
    ELSE PIIEntity(Slice(doc, match.start, match.end), entity_type,
                   match.start, match.end, confidence, "REGEX")

\* RegexDetector._is_valid_entity
is_valid_entity(entity) ==
    IF Len(Strip(entity.text)) < 2 THEN FALSE
    ELSE IF is_false_positive(entity.entity_type, entity.text) THEN FALSE
    ELSE TRUE

\* The documents given to detect: "", "  ", "I am Test", "I am TEST",
\* "I am Al 1 a St", "a@b.co", "12345-6789", "1 ,  2", "I am Al",
\* "10 Test Lane", "I am Test a@b.co".
EmptyDoc == <<>>

BlankDoc == <<" ", " ">>

NameTestDoc == <<"I", " ", "a", "m", " ", "T", "e", "s", "t">>

NameUpperDoc == <<"I", " ", "a", "m", " ", "T", "E", "S", "T">>

NameStreetDoc == <<"I", " ", "a", "m", " ", "A", "l", " ", "1", " ", "a", " ", "S", "t">>

EmailDoc == <<"a", "@", "b", ".", "c", "o">>

SsnZipDoc == <<"1", "2", "3", "4", "5", "-", "6", "7", "8", "9">>

CommaDoc == <<"1", " ", ",", " ", " ", "2">>

NameDoc == <<"I", " ", "a", "m", " ", "A", "l">>

StreetDoc == <<"1", "0", " ", "T", "e", "s", "t", " ", "L", "a", "n", "e">>

NameEmailDoc == <<"I", " ", "a", "m", " ", "T", "e", "s", "t", " ", "a", "@", "b", ".", "c", "o">>

DetectDocs ==
    {EmptyDoc, BlankDoc, NameTestDoc, NameUpperDoc, NameStreetDoc, EmailDoc,
     SsnZipDoc, CommaDoc, NameDoc, StreetDoc, NameEmailDoc}

\* re.finditer(pattern, text, re.IGNORECASE) for the k-th pattern of
\* PII_PATTERNS: the matches the re library returns on the documents of
\* DetectDocs, in the order of iteration (none where no case is listed).
finditer(k, doc) ==
    CASE k = 1 /\ doc = EmailDoc -> <<Match(0, 6, <<>>)>>
      [] k = 1 /\ doc = NameEmailDoc -> <<Match(10, 16, <<>>)>>
      [] k = 2 /\ doc = EmailDoc -> <<Match(0, 6, <<>>)>>
      [] k = 2 /\ doc = NameEmailDoc -> <<Match(10, 16, <<>>)>>
      [] k = 6 /\ doc = SsnZipDoc -> <<Match(0, 10, <<>>)>>
      [] k = 7 /\ doc = SsnZipDoc -> <<Match(0, 10, <<>>)>>
      [] k = 8 /\ doc = NameStreetDoc -> <<Match(8, 14, <<Group(12, 14)>>)>>
      [] k = 8 /\ doc = StreetDoc -> <<Match(0, 12, <<Group(8, 12)>>)>>
      [] k = 9 /\ doc = CommaDoc -> <<Match(1, 5, <<>>)>>
      [] k = 11 /\ doc = NameTestDoc -> <<Match(0, 9, <<Group(5, 9)>>)>>
      [] k = 11 /\ doc = NameUpperDoc -> <<Match(0, 9, <<Group(5, 9)>>)>>
      [] k = 11 /\ doc = NameStreetDoc -> <<Match(0, 7, <<Group(5, 7)>>)>>
      [] k = 11 /\ doc = NameDoc -> <<Match(0, 7, <<Group(5, 7)>>)>>
      [] k = 11 /\ doc = NameEmailDoc -> <<Match(0, 9, <<Group(5, 9)>>)>>
      [] OTHER -> <<>>


\* RegexDetector(confidence_score): the default and another score.
ConfidenceScores == {80, 90}

\* A detector and the text detect is about to be given.
InitDetect ==
    /\ IdleLater
    /\ IdleReconcile
    /\ IdleRedact
    /\ IdleStrategy
    /\ IdlePure
    /\ IdleInstances
    /\ text \in DetectDocs
    /\ confidence_score \in ConfidenceScores
    /\ det_entities = <<>>
    /\ det_pattern = 0
    /\ det_matches = <<>>
    /\ det_log = <<>>
    /\ det_pc = "call"

\* detect(text) up to the loops: an empty or blank text returns [] at once.
DetectCall ==
    /\ det_pc = "call"
    /\ det_pc' = IF text = <<>> \/ Strip(text) = <<>> THEN "done" ELSE "loop"
    /\ det_entities' = <<>>
    /\ UNCHANGED <<text, confidence_score, det_pattern, det_matches, det_log,
                   rvars, tvars, svars, pvars, ivars, yvars>>

\* The loops move on to the next pattern: matches = re.finditer(...).
NextPattern ==
    /\ det_pc = "loop"
    /\ det_matches = <<>>
    /\ det_pattern < Len(PII_PATTERNS)
    /\ det_pattern' = det_pattern + 1
    /\ det_matches' = finditer(det_pattern + 1, text)
    /\ UNCHANGED <<text, confidence_score, det_entities, det_log, det_pc,
                   rvars, tvars, svars, pvars, ivars, yvars>>

\* One iteration of "for match in matches".
HandleMatch ==
    /\ det_pc = "loop"
    /\ det_matches # <<>>
    /\ LET match == Head(det_matches)
           entity_type == PII_PATTERNS[det_pattern].entity_type
           entity == create_entity_from_match(match, entity_type, text,
                                              confidence_score)
           valid == is_valid_entity(entity)
       IN /\ det_entities' = IF valid THEN Append(det_entities, entity)
                                       ELSE det_entities
          /\ det_log' = Append(det_log, [pattern |-> det_pattern,
                                         match |-> match,
                                         entity |-> entity,
                                         appended |-> valid])
    /\ det_matches' = Tail(det_matches)
    /\ UNCHANGED <<text, confidence_score, det_pattern, det_pc,
                   rvars, tvars, svars, pvars, ivars, yvars>>

\* return entities
DetectReturn ==
    /\ det_pc = "loop"
    /\ det_matches = <<>>
    /\ det_pattern = Len(PII_PATTERNS)
    /\ det_pc' = "done"
    /\ UNCHANGED <<text, confidence_score, det_entities, det_pattern,
                   det_matches, det_log, rvars, tvars, svars, pvars, ivars, yvars>>

NextDetect == DetectCall \/ NextPattern \/ HandleMatch \/ DetectReturn

SpecDetect == InitDetect /\ [][NextDetect]_vars

\* ------------------------------------------------- validate_redaction
\* "sub in s" for two strings.
Contains(s, sub) ==
    \E i \in 0..(Len(s) - Len(sub)) : SubSeq(s, i + 1, i + Len(sub)) = sub

RECURSIVE LeakErrors(_, _)
\* The loop over result.entities_redacted: one error for each entry whose
\* original_text, lower-cased, is in the lower-cased redacted text.
LeakErrors(entries, redacted) ==
    IF entries = <<>> THEN <<>>
    ELSE (IF Contains(Lower(redacted), Lower(Head(entries).original_text))
          THEN <<[still_present |-> Head(entries).original_text]>>
          ELSE <<>>)
         \o LeakErrors(Tail(entries), redacted)

\* Faulty variant: the comparison keeps the case of both texts.
validate_redaction_case_sensitive(res) ==
    LET leaks == {i \in 1..Len(res.entities_redacted) :
                     Contains(res.redacted_text,
                              res.entities_redacted[i].original_text)}
    IN [is_valid |-> leaks = {},
        errors |-> [i \in 1..Cardinality(leaks) |->
                       [still_present |-> res.entities_redacted[
                           CHOOSE k \in leaks :
                               Cardinality({j \in leaks : j < k}) = i - 1].original_text]],
        warnings |-> IF 2 * Len(res.redacted_text) > 3 * Len(res.original_text)
                     THEN <<[redacted_length |-> Len(res.redacted_text),
                             original_length |-> Len(res.original_text)]>>
                     ELSE <<>>]

\* validate_redaction; redacted_length > original_length * 1.5 is compared
\* in halves.
validate_redaction(res) ==
    LET errors == LeakErrors(res.entities_redacted, res.redacted_text)
    IN [is_valid |-> errors = <<>>,
        errors |-> errors,
        warnings |-> IF 2 * Len(res.redacted_text) > 3 * Len(res.original_text)
                     THEN <<[redacted_length |-> Len(res.redacted_text),
                             original_length |-> Len(res.original_text)]>>
                     ELSE <<>>]

ValAlphabet == {"a", "A", "*"}

\* The PII snippets of the audit entries.
ValSnippets == {<<>>, <<"a">>, <<"A">>, <<"a", "A">>}

\* The audit entry of a snippet found at the start of the text.
ValEntry(snippet) ==
    AuditEntry(PIIEntity(snippet, "NAME", 0, Len(snippet), 90, "REGEX"), <<Star>>)

\* Any RedactionResult: the validator is also given results that leak.
InitValidate ==
    /\ IdleReconcile
    /\ IdleRedact
    /\ IdleStrategy
    /\ IdleOthers
    /\ IdleSources
    /\ IdlePayload
    /\ IdleFile
    /\ text = <<>>
    /\ \E n \in 0..ValLen : \E m \in 0..ValLen : \E k \in 0..MaxAudit :
          \E original \in [1..n -> {"a"}] : \E redacted \in [1..m -> ValAlphabet] :
              \E snippets \in [1..k -> ValSnippets] :
                  val_result = RedactionResult(original, redacted,
                                   [i \in 1..k |-> ValEntry(snippets[i])], "mask")
    /\ validation = <<>>

\* validate_redaction(result)
Validate ==
    /\ validation = <<>>
    /\ validation' = <<validate_redaction(val_result)>>
    /\ UNCHANGED <<text, val_result, rvars, tvars, svars, xvars, qvars, lvars, fvars>>

NextValidate == Validate

SpecValidate == InitValidate /\ [][NextValidate]_vars

\* ---------------------------------- PIIDetector and ComprehendDetector
RECURSIVE DetectFrom(_, _, _)
\* The loops of RegexDetector.detect from the k-th pattern on.
DetectFrom(k, doc, confidence) ==
    IF k > Len(PII_PATTERNS) THEN <<>>
    ELSE LET ms == finditer(k, doc)
             made == [i \in 1..Len(ms) |->
                         create_entity_from_match(ms[i], PII_PATTERNS[k].entity_type,
                                                  doc, confidence)]
         IN SelectSeq(made, is_valid_entity) \o DetectFrom(k + 1, doc, confidence)

\* RegexDetector.detect as a whole.
RegexDetect(doc, confidence) ==
    IF doc = <<>> \/ Strip(doc) = <<>> THEN <<>>
    ELSE DetectFrom(1, doc, confidence)

\* PIIDetector.__init__: client is what ComprehendDetector._init_client
\* returned ("None" when boto3 or the client is not to be had).
PIIDetectorInit(use_comprehend, cer_endpoint_arn, client) ==
    [use_comprehend |-> use_comprehend /\ client # "None",
     cer_endpoint_arn |-> cer_endpoint_arn,
     comprehend_detector |-> [constructed |-> use_comprehend,
                              comprehend_client |-> IF use_comprehend THEN client
                                                    ELSE "None"]]

\* An entity of a service response; one without 'Score' makes
\* entity['Score'] raise KeyError.
ResponseEntity(b, e, ty, score) ==
    [BeginOffset |-> b, EndOffset |-> e, Type |-> ty, Score |-> score]

ScorelessEntity(b, e, ty) == [BeginOffset |-> b, EndOffset |-> e, Type |-> ty]

ResponseEntities ==
    {ResponseEntity(5, 7, "NAME", 90), ResponseEntity(0, 4, "NAME", 70),
     ScorelessEntity(0, 4, "NAME")}

RECURSIVE ConvertLoop(_, _, _, _)
\* "for entity in response.get('Entities', [])" inside the try: an
\* exception ends the loop, and entities, as far as it was filled, is what
\* the method goes on to return.
ConvertLoop(acc, rest, doc, src) ==
    IF rest = <<>> THEN [entities |-> acc, error |-> FALSE]
    ELSE IF "Score" \notin DOMAIN Head(rest)
         THEN [entities |-> acc, error |-> TRUE]
         ELSE ConvertLoop(
                  Append(acc, PIIEntity(Slice(doc, Head(rest).BeginOffset,
                                              Head(rest).EndOffset),
                                        Head(rest).Type, Head(rest).BeginOffset,
                                        Head(rest).EndOffset, Head(rest).Score, src)),
                  Tail(rest), doc, src)

\* ComprehendDetector.detect_pii / detect_entities_with_cer: what is
\* returned, whether the service was called, whether an exception was
\* caught.  answer is what the service does when it is called.
ComprehendMethod(client, doc, answer, src) ==
    IF client = "None"
    THEN [returned |-> <<>>, service_called |-> FALSE, error |-> FALSE]
    ELSE IF doc = <<>> \/ Strip(doc) = <<>>
    THEN [returned |-> <<>>, service_called |-> FALSE, error |-> FALSE]
    ELSE IF answer.raises
    THEN [returned |-> <<>>, service_called |-> TRUE, error |-> TRUE]
    ELSE LET c == ConvertLoop(<<>>, answer.Entities, doc, src)
         IN [returned |-> c.entities, service_called |-> TRUE, error |-> c.error]

\* What the service does on a call: it raises, or answers with entities.
ServiceAnswers ==
    {[raises |-> TRUE, Entities |-> <<>>]}
    \cup UNION {{[raises |-> FALSE, Entities |-> es] : es \in [1..n -> ResponseEntities]}
                : n \in 0..MaxResponse}

SourceDocs == {BlankDoc, NameDoc, EmailDoc}

\* A PIIDetector, the text detect_pii is about to be given and what the
\* service will answer to detect_pii_entities and to detect_entities.
InitSources ==
    /\ IdleReconcile
    /\ IdleRedact
    /\ IdleStrategy
    /\ IdleOthers
    /\ IdleValidate
    /\ IdlePayload
    /\ IdleFile
    /\ text \in SourceDocs
    /\ \E use_comprehend \in BOOLEAN : \E cer_endpoint_arn \in {"None", "arn"} :
          \E client \in {"None", "client"} :
              pii_detector = PIIDetectorInit(use_comprehend, cer_endpoint_arn, client)
    /\ \E a \in ServiceAnswers : \E b \in ServiceAnswers :
          service = [detect_pii_entities |-> a, detect_entities |-> b]
    /\ src_calls = <<>>
    /\ src_lists = <<>>
    /\ src_result = <<>>
    /\ src_pc = "call"

\* PIIDetector.detect_pii up to and including the regex detection; an
\* empty or blank text returns [] at once.
RegexStage ==
    /\ src_pc = "call"
    /\ IF text = <<>> \/ Strip(text) = <<>>
       THEN /\ src_pc' = "done"
            /\ src_result' = <<>>
            /\ UNCHANGED src_lists
       ELSE /\ src_pc' = "comprehend"
            /\ src_lists' = <<RegexDetect(text, 80)>>
            /\ UNCHANGED src_result
    /\ UNCHANGED <<text, pii_detector, service, src_calls,
                   rvars, tvars, svars, xvars, vvars, lvars, fvars>>

\* "if self.use_comprehend and self.comprehend_detector": detect_pii
ComprehendStage ==
    /\ src_pc = "comprehend"
    /\ src_pc' = "cer"
    /\ IF pii_detector.use_comprehend /\ pii_detector.comprehend_detector.constructed
       THEN LET r == ComprehendMethod(
                         pii_detector.comprehend_detector.comprehend_client,
                         text, service.detect_pii_entities, "COMPREHEND")
            IN /\ src_lists' = Append(src_lists, r.returned)
               /\ src_calls' = Append(src_calls, [method |-> "detect_pii"] @@ r)
       ELSE UNCHANGED <<src_lists, src_calls>>
    /\ UNCHANGED <<text, pii_detector, service, src_result,
                   rvars, tvars, svars, xvars, vvars, lvars, fvars>>

\* "if self.cer_endpoint_arn and self.comprehend_detector":
\* detect_entities_with_cer
CerStage ==
    /\ src_pc = "cer"
    /\ src_pc' = "merge"
    /\ IF pii_detector.cer_endpoint_arn # "None"
          /\ pii_detector.comprehend_detector.constructed
       THEN LET r == ComprehendMethod(
                         pii_detector.comprehend_detector.comprehend_client,
                         text, service.detect_entities, "CER")
            IN /\ src_lists' = Append(src_lists, r.returned)
               /\ src_calls' = Append(src_calls,
                                      [method |-> "detect_entities_with_cer"] @@ r)
       ELSE UNCHANGED <<src_lists, src_calls>>
    /\ UNCHANGED <<text, pii_detector, service, src_result,
                   rvars, tvars, svars, xvars, vvars, lvars, fvars>>

\* all_entities = merge_entity_lists(*entity_lists); return all_entities
MergeStage ==
    /\ src_pc = "merge"
    /\ src_pc' = "done"
    /\ src_result' = merge_entity_lists(src_lists)
    /\ UNCHANGED <<text, pii_detector, service, src_calls, src_lists,
                   rvars, tvars, svars, xvars, vvars, lvars, fvars>>

NextSources == RegexStage \/ ComprehendStage \/ CerStage \/ MergeStage

SpecSources == InitSources /\ [][NextSources]_vars

\* ------------------------------------------------- the payload processors
\* A value of a record: a str holds its characters, any other value is
\* kept by its kind and its printed form.
StrValue(chars) == [kind |-> "str", val |-> chars]

IntValue(chars) == [kind |-> "int", val |-> chars]

\* self.pii_fields of both processors
pii_fields == <<"sentence", "description", "notes", "comments", "transcript">>

\* Faulty variant kept for comparison: a whitespace-only field is processed.
should_process_field_unstripped(pl, field_name) ==
    /\ field_name \in DOMAIN pl
    /\ pl[field_name].kind = "str"
    /\ pl[field_name].val # <<>>

\* _should_process_field, the same in both processors
should_process_field(pl, field_name) ==
    /\ field_name \in DOMAIN pl
    /\ pl[field_name].kind = "str"
    /\ Strip(pl[field_name].val) # <<>>

\* Faulty variant kept for comparison: no new dict is made.
DictCopy_alias(heap, ref) == [heap |-> heap, ref |-> ref]

\* payload.copy(): a new dict object with the keys and values of the old
\* one.  heap holds the dict objects, a ref is an index into it.
DictCopy(heap, ref) == [heap |-> Append(heap, heap[ref]), ref |-> Len(heap) + 1]

\* d[key] = value on the dict object at ref
SetItem(heap, ref, key, value) ==
    [heap EXCEPT ![ref] = [k \in DOMAIN @ \cup {key} |->
                              IF k = key THEN value ELSE @[k]]]

\* F of the value of x: a name bound once to what a call returned.
Apply(F(_), x) == CHOOSE out \in {F(v) : v \in {x}} : TRUE

RECURSIVE RedactLoop(_, _, _, _, _)
\* The loop of TextRedactor.redact_text over the entities from the end of
\* the text to its start.
RedactLoop(name, cache, working, audit, rest) ==
    IF rest = <<>> THEN [working |-> working, audit |-> audit, cache |-> cache]
    ELSE LET entity == Head(rest)
             r == StrategyRedact(name, cache, entity.text, entity.entity_type)
         IN RedactLoop(name, r.cache, Splice(working, entity, r.out),
                       Append(audit, AuditEntry(entity, r.out)), Tail(rest))

\* TextRedactor.redact_text as a whole.
RedactText(name, cache, t, ents) ==
    IF ents = <<>> THEN [result |-> create_empty(t, name), cache |-> cache]
    ELSE LET l == RedactLoop(name, cache, t, <<>>, sorted_by_start_reverse(ents))
         IN [result |-> RedactionResult(t, l.working, l.audit, name),
             cache |-> l.cache]

\* Faulty variant kept for comparison: every entry is tagged with the
\* first configured field.
TagField_first_field(redaction, field_name) ==
    [k \in DOMAIN redaction \cup {"field_name"} |->
        IF k = "field_name" THEN pii_fields[1] ELSE redaction[k]]

\* redaction['field_name'] = field_name
TagField(redaction, field_name) ==
    [k \in DOMAIN redaction \cup {"field_name"} |->
        IF k = "field_name" THEN field_name ELSE redaction[k]]

\* The _redaction_metadata dict.
MetadataBlock(redacted_at, all_redactions, name) ==
    [redacted_at |-> redacted_at,
     redaction_count |-> Len(all_redactions),
     strategy_used |-> name,
     redactions |-> all_redactions]

RECURSIVE GuardedFieldLoop(_, _, _, _, _, _, _)
\* redaction/payload_processor.py: the loop of process_payload over
\* entities_by_field (pairs of a field name and its entities, in the order
\* of the dict); pl is the input dict, ref the copy being written.
GuardedFieldLoop(heap, ref, pl, rest, all_redactions, name, cache) ==
    IF rest = <<>> THEN [heap |-> heap, all_redactions |-> all_redactions]
    ELSE IF should_process_field(pl, Head(rest).field_name)
    THEN LET field_name == Head(rest).field_name
             Rest(r) ==
                 GuardedFieldLoop(
                     SetItem(heap, ref, field_name, StrValue(r.result.redacted_text)),
                     ref, pl, Tail(rest),
                     all_redactions
                     \o [i \in 1..Len(r.result.entities_redacted) |->
                            TagField(r.result.entities_redacted[i], field_name)],
                     name, r.cache)
         IN Apply(Rest, RedactText(name, cache, pl[field_name].val,
                                   Head(rest).entities))
    ELSE GuardedFieldLoop(heap, ref, pl, Tail(rest), all_redactions, name, cache)

\* redaction/payload_processor.py: process_payload(payload,
\* entities_by_field) on the dict object at ref.
redaction_process_payload(heap, ref, entities_by_field, name) ==
    LET c == DictCopy(heap, ref)
        Return(l) ==
            IF l.all_redactions # <<>>
            THEN [heap |-> SetItem(l.heap, c.ref, "_redaction_metadata",
                                   MetadataBlock("utcnow", l.all_redactions, name)),
                  ref |-> c.ref]
            ELSE [heap |-> l.heap, ref |-> c.ref]
    IN Apply(Return, GuardedFieldLoop(c.heap, c.ref, heap[ref], entities_by_field,
                                      <<>>, name, EmptyCache))

RECURSIVE FieldLoop(_, _, _, _, _, _, _)
\* processing/payload_processor.py: the loop of _redact_payload_fields.
FieldLoop(heap, ref, pl, rest, acc, name, cache) ==
    IF rest = <<>> THEN [heap |-> heap] @@ acc
    ELSE LET field_name == Head(rest).field_name
             Rest(r) ==
                 FieldLoop(
                     SetItem(heap, ref, field_name, StrValue(r.result.redacted_text)),
                     ref, pl, Tail(rest),
                     [all_redactions |->
                          acc.all_redactions
                          \o [i \in 1..Len(r.result.entities_redacted) |->
                                 TagField(r.result.entities_redacted[i], field_name)],
                      redacted_at |-> r.result.redacted_at],
                     name, r.cache)
         IN Apply(Rest, RedactText(name, cache, pl[field_name].val,
                                   Head(rest).entities))

\* processing/payload_processor.py: _redact_payload_fields
redact_payload_fields(heap, ref, entities_by_field, name) ==
    LET c == DictCopy(heap, ref)
        Return(l) ==
            IF l.all_redactions # <<>>
            THEN [heap |-> SetItem(l.heap, c.ref, "_redaction_metadata",
                                   MetadataBlock(l.redacted_at, l.all_redactions, name)),
                  ref |-> c.ref]
            ELSE [heap |-> l.heap, ref |-> c.ref]
    IN Apply(Return, FieldLoop(c.heap, c.ref, heap[ref], entities_by_field,
                               [all_redactions |-> <<>>, redacted_at |-> "unbound"],
                               name, EmptyCache))

\* What self.detector.detect_pii does on the text of a field: the answer
\* drawn for the field, no entities for a field no answer was drawn for.
AnswerFor(answers, field_name) ==
    IF field_name \in DOMAIN answers THEN answers[field_name]
    ELSE [raises |-> FALSE, entities |-> <<>>]

RECURSIVE DetectLoop(_, _, _, _)
\* processing/payload_processor.py: step 1 of process_payload; an
\* exception of the detector leaves the loop.
DetectLoop(rest, pl, answers, found) ==
    IF rest = <<>> THEN [raised |-> FALSE, entities_by_field |-> found]
    ELSE IF ~should_process_field(pl, Head(rest))
    THEN DetectLoop(Tail(rest), pl, answers, found)
    ELSE IF AnswerFor(answers, Head(rest)).raises
    THEN [raised |-> TRUE, entities_by_field |-> found]
    ELSE IF AnswerFor(answers, Head(rest)).entities # <<>>
    THEN DetectLoop(Tail(rest), pl, answers,
                    Append(found, [field_name |-> Head(rest),
                                   entities |-> AnswerFor(answers, Head(rest)).entities]))
    ELSE DetectLoop(Tail(rest), pl, answers, found)

RECURSIVE TotalEntities(_)
TotalEntities(found) ==
    IF found = <<>> THEN 0
    ELSE Len(Head(found).entities) + TotalEntities(Tail(found))

\* payload.get('verbatim_id', 'unknown')
PayloadId(pl) ==
    IF "verbatim_id" \in DOMAIN pl THEN pl["verbatim_id"]
    ELSE StrValue(<<"u", "n", "k", "n", "o", "w", "n">>)

\* ------------------------------------------- inputs of process_payload
\* The text keys a drawn record may hold, in the order of pii_fields.
TextKeys == <<"sentence", "notes">>

\* Values of a text key: not a str, empty, whitespace only, or a text.
FieldValues ==
    {IntValue(<<"7">>), StrValue(EmptyDoc), StrValue(BlankDoc), StrValue(NameDoc),
     StrValue(EmailDoc)}

\* Disjoint spans inside the field texts.
FieldSpans == <<<<5, 7>>, <<0, 1>>, <<2, 4>>>>

\* The first n spans as entities of doc.
FieldEntities(doc, n) ==
    [i \in 1..n |-> PIIEntity(Slice(doc, FieldSpans[i][1], FieldSpans[i][2]), "NAME",
                              FieldSpans[i][1], FieldSpans[i][2], 80, "REGEX")]

\* What the detector may do on a field: raise, or report up to
\* MaxFieldEntities entities.
FieldAnswers(doc) ==
    {[raises |-> TRUE, entities |-> <<>>]}
    \cup {[raises |-> FALSE, entities |-> FieldEntities(doc, n)] :
             n \in 0..Min(MaxFieldEntities, Len(FieldSpans))}

\* The records: verbatim_id present or not, each text key present or not.
Payloads ==
    {[k \in ks |-> IF k = "verbatim_id" THEN IntValue(<<"4", "2">>) ELSE f[k]] :
        ks \in SUBSET {"verbatim_id", TextKeys[1], TextKeys[2]},
        f \in [{TextKeys[1], TextKeys[2]} -> FieldValues]}

\* The text of a key of pl, where it is a str.
TextOf(pl, k) == IF k \in DOMAIN pl /\ pl[k].kind = "str" THEN pl[k].val ELSE NameDoc

\* The entities_by_field handed to redaction/payload_processor.py: the
\* answers that are lists, in the order of the text keys.
EntitiesByField(answers) ==
    LET ok == SelectSeq(TextKeys, LAMBDA k : ~answers[k].raises)
    IN [i \in 1..Len(ok) |-> [field_name |-> ok[i], entities |-> answers[ok[i]].entities]]

\* A record, a strategy and what the detector does on each text key.
InitPayload ==
    /\ IdleReconcile
    /\ IdleRedact
    /\ IdleStrategy
    /\ IdleOthers
    /\ IdleValidate
    /\ IdleSources
    /\ IdleFile
    /\ text = <<>>
    /\ \E pl \in Payloads :
          /\ payload = pl
          /\ \E a \in FieldAnswers(TextOf(pl, TextKeys[1])) :
                \E b \in FieldAnswers(TextOf(pl, TextKeys[2])) :
                    detector_answers = (TextKeys[1] :> a) @@ (TextKeys[2] :> b)
    /\ payload_in = "none"
    /\ redacted_payload = "none"
    /\ processing_stats = "none"
    /\ pl_strategy \in {"placeholder", "mask"}
    /\ pl_pc = "call"

\* processing/payload_processor.py: PayloadProcessor(detector,
\* redactor).process_payload(payload).  The whole body is one try: when
\* the detector raises, the except branch returns the payload object
\* itself and the statistics of a failure.
ProcessPayload ==
    /\ pl_pc = "call"
    /\ \E d \in {DetectLoop(pii_fields, payload, detector_answers, <<>>)} :
          IF d.raised
          THEN /\ payload_in' = payload
               /\ redacted_payload' = payload
               /\ processing_stats' =
                      [payload_id |-> PayloadId(payload), pii_detected |-> 0,
                       fields_with_pii |-> <<>>, status |-> "failed",
                       error |-> "str(e)"]
          ELSE /\ \E r \in {IF d.entities_by_field # <<>>
                              THEN redact_payload_fields(<<payload>>, 1,
                                                         d.entities_by_field,
                                                         pl_strategy)
                              ELSE DictCopy(<<payload>>, 1)} :
                     /\ payload_in' = r.heap[1]
                     /\ redacted_payload' = r.heap[r.ref]
               /\ processing_stats' =
                      [payload_id |-> PayloadId(payload),
                       pii_detected |-> TotalEntities(d.entities_by_field),
                       fields_with_pii |->
                           [i \in 1..Len(d.entities_by_field) |->
                               d.entities_by_field[i].field_name],
                       status |-> "success"]
    /\ pl_pc' = "processed"
    /\ UNCHANGED <<text, payload, detector_answers, pl_strategy,
                   rvars, tvars, svars, xvars, vvars, qvars, fvars>>

\* redaction/payload_processor.py: PayloadProcessor(strategy_name)
\* .process_payload(payload, entities_by_field)
RedactPayload ==
    /\ pl_pc = "call"
    /\ \E entities_by_field \in {EntitiesByField(detector_answers)} :
          \E r \in {redaction_process_payload(<<payload>>, 1, entities_by_field,
                                              pl_strategy)} :
              /\ payload_in' = r.heap[1]
              /\ redacted_payload' = r.heap[r.ref]
    /\ pl_pc' = "redacted"
    /\ UNCHANGED <<text, payload, detector_answers, processing_stats, pl_strategy,
                   rvars, tvars, svars, xvars, vvars, qvars, fvars>>

NextPayload == ProcessPayload \/ RedactPayload

SpecPayload == InitPayload /\ [][NextPayload]_vars

\* ------------------------------------------------------ the file processor
\* The records of a file, each by what matters of it: one without PII, one
\* with PII, one holding a string json.dump cannot encode as UTF-8 (a
\* lone surrogate, which json.loads accepts as an escape).
RecordKinds == {"clean", "pii", "surrogate"}

\* A file that is not JSON.
NotJson == <<"not json">>

\* _load_json_file: the payloads, or the ValueError it raises.
load_json_file(file) ==
    IF ~file.exists \/ file.content = NotJson
    THEN [raised |-> TRUE, payloads |-> <<>>]
    ELSE [raised |-> FALSE, payloads |-> file.content]

\* process_multiple_payloads: the PII of a record is redacted, any other
\* record comes back as it is; process_payload catches its exceptions.
process_multiple_payloads(payloads) ==
    [i \in 1..Len(payloads) |->
        IF payloads[i] = "pii" THEN "redacted" ELSE payloads[i]]

\* What is in the file when json.dump failed in the record being written.
Cut == "cut"

\* A file to process in place, or none at the path.
InitFile ==
    /\ IdleReconcile
    /\ IdleRedact
    /\ IdleStrategy
    /\ IdleOthers
    /\ IdleValidate
    /\ IdleSources
    /\ IdlePayload
    /\ text = <<>>
    /\ \/ fs_original = NoFile
       \/ fs_original = File(NotJson)
       \/ \E n \in 0..MaxPayloads : \E c \in [1..n -> RecordKinds] :
             fs_original = File(c)
    /\ fs_file = fs_original
    /\ fs_backup = NoFile
    /\ fs_payloads = <<>>
    /\ fs_result = "none"
    /\ fs_pc = "call"

\* shutil.copy2(file_path, backup_path), before the try: without a file
\* the exception leaves process_file_in_place.
Backup ==
    /\ fs_pc = "call"
    /\ IF fs_file.exists
       THEN /\ fs_backup' = fs_file
            /\ fs_pc' = "load"
            /\ UNCHANGED fs_result
       ELSE /\ fs_result' = "raised"
            /\ fs_pc' = "done"
            /\ UNCHANGED fs_backup
    /\ UNCHANGED <<text, fs_original, fs_file, fs_payloads,
                   rvars, tvars, svars, xvars, vvars, qvars, lvars>>

\* process_file, steps 1 to 3.  A file that cannot be read and a file
\* without payloads end process_file with a failed JobResult, which
\* process_file_in_place returns as it is.
LoadAndProcess ==
    /\ fs_pc = "load"
    /\ LET l == load_json_file(fs_file)
       IN IF l.raised \/ l.payloads = <<>>
          THEN /\ fs_result' = "failed"
               /\ fs_pc' = "done"
               /\ UNCHANGED fs_payloads
          ELSE /\ fs_payloads' = process_multiple_payloads(l.payloads)
               /\ fs_pc' = "open"
               /\ UNCHANGED fs_result
    /\ UNCHANGED <<text, fs_original, fs_file, fs_backup,
                   rvars, tvars, svars, xvars, vvars, qvars, lvars>>

\* _save_json_file: open(file_path, 'w') empties the file.
OpenForWriting ==
    /\ fs_pc = "open"
    /\ fs_file' = File(<<>>)
    /\ fs_pc' = "write"
    /\ UNCHANGED <<text, fs_original, fs_backup, fs_payloads, fs_result,
                   rvars, tvars, svars, xvars, vvars, qvars, lvars>>

\* json.dump writes the next record.  One it cannot encode raises inside
\* _save_json_file; process_file turns the ValueError into a failed
\* JobResult and process_file_in_place returns it.
WriteRecord ==
    /\ fs_pc = "write"
    /\ Len(fs_file.content) < Len(fs_payloads)
    /\ LET next == fs_payloads[Len(fs_file.content) + 1]
       IN IF next = "surrogate"
          THEN /\ fs_file' = File(Append(fs_file.content, Cut))
               /\ fs_result' = "failed"
               /\ fs_pc' = "done"
          ELSE /\ fs_file' = File(Append(fs_file.content, next))
               /\ UNCHANGED <<fs_result, fs_pc>>
    /\ UNCHANGED <<text, fs_original, fs_backup, fs_payloads,
                   rvars, tvars, svars, xvars, vvars, qvars, lvars>>

\* All records are written: process_file returns create_success and
\* process_file_in_place removes the backup.
FinishSuccess ==
    /\ fs_pc = "write"
    /\ Len(fs_file.content) = Len(fs_payloads)
    /\ fs_result' = "success"
    /\ fs_backup' = NoFile
    /\ fs_pc' = "done"
    /\ UNCHANGED <<text, fs_original, fs_file, fs_payloads,
                   rvars, tvars, svars, xvars, vvars, qvars, lvars>>

NextFile == Backup \/ LoadAndProcess \/ OpenForWriting \/ WriteRecord \/ FinishSuccess

SpecFile == InitFile /\ [][NextFile]_vars

\* ------------------------------------------- properties of the reconciler
all_entities == Concat(entity_lists)

Elems(seq) == {seq[i] : i \in 1..Len(seq)}

Count(e, seq) == Cardinality({i \in 1..Len(seq) : seq[i] = e})

\* Half-open interval intersection, as the claims state it.
SpansIntersect(a, b) == a.start_pos < b.end_pos /\ a.end_pos > b.start_pos

SortedAscending(seq) ==
    \A i \in 1..Len(seq) : \A j \in 1..Len(seq) :
        i < j => seq[i].start_pos <= seq[j].start_pos

PairwiseDisjoint(seq) ==
    \A i \in 1..Len(seq) : \A j \in 1..Len(seq) :
        i # j => ~SpansIntersect(seq[i], seq[j])

\* C1: the list merge_entity_lists returns is sorted ascending by start_pos
\* and no two of its entities overlap.
C1_SortedDisjoint ==
    rpc = "done" => SortedAscending(merged) /\ PairwiseDisjoint(merged)

\* A merge of overlapping input that still returns two or more entities.
C1_Witness ==
    /\ rpc = "done"
    /\ ~PairwiseDisjoint(all_entities)
    /\ Len(merged) >= 2

TwoOverlapping ==
    /\ Len(all_entities) = 2
    /\ SpansIntersect(all_entities[1], all_entities[2])

\* C5: of exactly two overlapping entities with different confidences the
\* merge returns exactly the one with the higher confidence, whatever the
\* input order and the list each came from.
C5_HigherConfidenceWins ==
    (rpc = "done" /\ TwoOverlapping
       /\ all_entities[1].confidence # all_entities[2].confidence)
    => LET hi == IF all_entities[1].confidence > all_entities[2].confidence
                 THEN all_entities[1] ELSE all_entities[2]
       IN merged = <<hi>>

\* The higher-confidence entity comes later in start order and from the other
\* list, so the scan replaced the accepted entity.
C5_Witness ==
    /\ rpc = "done" /\ TwoOverlapping
    /\ Len(entity_lists[1]) = 1 /\ Len(entity_lists[2]) = 1
    /\ all_entities[1].start_pos > all_entities[2].start_pos
    /\ all_entities[1].confidence > all_entities[2].confidence
    /\ merged = <<all_entities[1]>>

\* The accepted list before the last iteration of the scan.
AcceptedBefore ==
    DedupScan(<<>>, SubSeq(sorted_entities, 1, scan_idx - 2))

\* C6: an equal-confidence overlap keeps the entity that is first in the
\* stable start-sorted order: of two such input entities the merge returns
\* the one with the smaller start_pos (for equal start_pos the earlier of the
\* concatenated input), and in every iteration of the scan a candidate that
\* ties with the accepted entity it overlaps is discarded.
C6_TieKeepsFirst ==
    /\ (rpc = "done" /\ TwoOverlapping
          /\ all_entities[1].confidence = all_entities[2].confidence)
       => merged = << IF all_entities[1].start_pos <= all_entities[2].start_pos
                      THEN all_entities[1] ELSE all_entities[2] >>
    /\ (rpc \in {"scan", "done"} /\ scan_idx >= 2)
       => LET i == FirstOverlap(AcceptedBefore, candidate)
          IN (i # 0 /\ candidate.confidence = AcceptedBefore[i].confidence)
             => deduplicated = AcceptedBefore

\* Two different entities of equal start_pos and confidence: the one given
\* first is returned.
C6_Witness ==
    /\ rpc = "done" /\ TwoOverlapping
    /\ all_entities[1].confidence = all_entities[2].confidence
    /\ all_entities[1].start_pos = all_entities[2].start_pos
    /\ all_entities[1] # all_entities[2]
    /\ merged = <<all_entities[1]>>

\* C7: the merge of pairwise non-overlapping entities returns exactly those
\* entities in ascending start order, and merging any returned list again
\* returns it unchanged.
C7_DisjointInputKept ==
    rpc = "done" =>
        /\ PairwiseDisjoint(all_entities) =>
              /\ \A e \in Elems(all_entities) \cup Elems(merged) :
                     Count(e, merged) = Count(e, all_entities)
              /\ SortedAscending(merged)
        /\ deduplicate_entities(merged) = merged
        /\ merge_entity_lists(<<merged>>) = merged

\* Disjoint entities given out of order.
C7_Witness ==
    /\ rpc = "done"
    /\ Len(all_entities) >= 2
    /\ PairwiseDisjoint(all_entities)
    /\ ~SortedAscending(all_entities)
    /\ Len(merged) = Len(all_entities)

\* C8: every returned entity is an input entity with all fields unchanged,
\* none is returned more often than it was given, and a non-empty input
\* gives a non-empty result.
C8_OnlyInputEntities ==
    rpc = "done" =>
        /\ \A e \in Elems(merged) :
              /\ e \in Elems(all_entities)
              /\ Count(e, merged) <= Count(e, all_entities)
        /\ all_entities # <<>> => merged # <<>>

\* A merge that replaced an accepted entity and dropped another.
C8_Witness ==
    /\ rpc = "done"
    /\ Len(all_entities) = 3
    /\ Len(merged) = 1
    /\ merged[1] # sorted_entities[1]

\* C27: every input entity is in the list merge_entity_lists returns or
\* overlaps an entity of that list.
C27_NoSpanUncovered ==
    rpc = "done" =>
        \A i \in 1..Len(all_entities) :
            \/ all_entities[i] \in Elems(merged)
            \/ \E j \in 1..Len(merged) : SpansIntersect(all_entities[i], merged[j])

\* The accepted entities the next candidate of the scan overlaps.
NextCandidate == sorted_entities[scan_idx]

OverlappedByNext ==
    {i \in 1..Len(deduplicated) : SpansIntersect(NextCandidate, deduplicated[i])}

\* C28: before every iteration of the scan the accepted list is sorted by
\* start_pos and pairwise non-overlapping, and the candidate overlaps at
\* most one accepted entity, the last one; the list the final re-sort
\* returns is the accepted list in the order it already had.
C28_ScanInvariant ==
    /\ rpc \in {"scan", "done"} =>
          SortedAscending(deduplicated) /\ PairwiseDisjoint(deduplicated)
    /\ rpc = "scan" =>
          /\ Cardinality(OverlappedByNext) <= 1
          /\ OverlappedByNext \subseteq {Len(deduplicated)}
    /\ rpc = "done" => merged = deduplicated

\* Two accepted entities and a third candidate of higher confidence that
\* overlaps only the last of them.
C28_Witness ==
    /\ rpc = "scan"
    /\ Len(deduplicated) = 2
    /\ OverlappedByNext = {2}
    /\ NextCandidate.confidence > deduplicated[2].confidence
    /\ NextCandidate.start_pos > deduplicated[2].start_pos

\* --------------------------------------------- properties of the redactor
\* The replacement strategy.redact gives for entity e of the call: a function
\* of (e.text, e.entity_type) for the stateless variants; for hash, the
\* bracketed digest of e.text tagged with the type of the first entity of
\* the call (the one of highest start_pos) that has the same text.
ReplacementOf(e) ==
    IF strategy_name = "hash"
    THEN LET same == {i \in 1..Len(entities) : entities[i].text = e.text}
             first == CHOOSE i \in same :
                         \A j \in same :
                             entities[j].start_pos <= entities[i].start_pos
         IN HashFormat(e.text, entities[first].entity_type)
    ELSE IF strategy_name = "placeholder"
    THEN PlaceholderRedact(e.text, e.entity_type)
    ELSE IF strategy_name = "mask" THEN MaskRedact(e.text, e.entity_type)
    ELSE IF strategy_name = "partial" THEN PartialRedact(e.text, e.entity_type)
    ELSE <<>>

RECURSIVE ExpectedFrom(_)
\* T[p:] rewritten: the characters outside the entity spans in order, each
\* entity span replaced by its replacement.
ExpectedFrom(p) ==
    IF p >= Len(text) THEN <<>>
    ELSE LET here == {i \in 1..Len(entities) : entities[i].start_pos = p}
         IN IF here = {} THEN <<text[p + 1]>> \o ExpectedFrom(p + 1)
            ELSE LET e == entities[CHOOSE i \in here : TRUE]
                 IN ReplacementOf(e) \o ExpectedFrom(e.end_pos)

\* C2: redact_text returns T[0:e1.start] + r1 + T[e1.end:e2.start] + ... + rn
\* + T[en.end:] for the entities in ascending start order, whatever order
\* they were passed in.
C2_RedactedTextIsSpliced ==
    tpc = "done" => result.redacted_text = ExpectedFrom(0)

\* Two or more entities passed in ascending order, rewritten by a strategy
\* whose replacements change the length of the text.
C2_Witness ==
    /\ tpc = "done"
    /\ Len(entities) >= 2
    /\ entities[1].start_pos < entities[2].start_pos
    /\ Len(result.redacted_text) # Len(text)
    /\ strategy_name = "hash"
    /\ \E i \in 1..Len(text) : ~(\E j \in 1..Len(entities) :
           entities[j].start_pos < i /\ i <= entities[j].end_pos)

\* C3: the loop applies the entities in descending start_pos order, and in
\* every state of the loop the working text still equals the original text
\* on the span of every entity not yet applied.
C3_PendingSpansIntact ==
    (tpc \in {"loop", "done"} /\ entities # <<>>) =>
        /\ Len(redaction_metadata) = red_idx - 1
        /\ \A i \in 1..Len(redaction_metadata) :
              /\ redaction_metadata[i].start_pos = sorted_desc[i].start_pos
              /\ \A j \in (i + 1)..Len(sorted_desc) :
                    sorted_desc[j].start_pos < redaction_metadata[i].start_pos
        /\ \A j \in red_idx..Len(sorted_desc) :
              Slice(redacted_text, sorted_desc[j].start_pos, sorted_desc[j].end_pos)
                  = Slice(text, sorted_desc[j].start_pos, sorted_desc[j].end_pos)

\* In the middle of the loop: one entity applied, with a replacement of
\* another length than its span, and one still to apply.
C3_Witness ==
    /\ tpc = "loop"
    /\ red_idx = 2
    /\ Len(sorted_desc) >= 2
    /\ Len(redacted_text) # Len(text)

RECURSIVE SumSpans(_)
SumSpans(audit) ==
    IF audit = <<>> THEN 0
    ELSE (Head(audit).end_pos - Head(audit).start_pos) + SumSpans(Tail(audit))

RECURSIVE SumReplacements(_)
SumReplacements(audit) ==
    IF audit = <<>> THEN 0
    ELSE Len(Head(audit).replacement) + SumReplacements(Tail(audit))

\* C4: len(redacted) = len(original) - sum of (end_pos - start_pos) + sum of
\* len(replacement), both sums over the audit entries of the result.
C4_LengthAccounting ==
    tpc = "done" =>
        Len(result.redacted_text) =
            Len(text) - SumSpans(result.entities_redacted)
                      + SumReplacements(result.entities_redacted)

\* Two or more entities applied by the mask strategy, one of them with a
\* replacement shorter than its span (the snippet is stripped first).
C4_Witness ==
    /\ tpc = "done"
    /\ strategy_name = "mask"
    /\ result.redaction_count >= 2
    /\ \E i \in 1..Len(result.entities_redacted) :
          LET a == result.entities_redacted[i]
          IN Len(a.replacement) < a.end_pos - a.start_pos

\* C17: redact_text with an empty entity list returns the text unchanged with
\* redaction_count 0 and no audit entries, without a strategy call (the hash
\* cache stays empty); redaction_count is 0 only for an empty entity list.
C17_EmptyEntityList ==
    tpc = "done" =>
        /\ entities = <<>> =>
              /\ result.redacted_text = text
              /\ result.original_text = text
              /\ result.redaction_count = 0
              /\ result.entities_redacted = <<>>
              /\ redaction_metadata = <<>>
              /\ hash_cache = EmptyCache
        /\ result.redaction_count = 0 => entities = <<>>

\* A text with surrounding whitespace and no entities, returned by a hash
\* redactor.
C17_Witness ==
    /\ tpc = "done"
    /\ entities = <<>>
    /\ strategy_name = "hash"
    /\ Len(text) >= 2
    /\ text[1] = " "
    /\ result.redaction_count = 0

\* C18: redact_text with n >= 1 entities returns n audit entries, one per
\* input entity with its text, type, offsets, confidence and source and the
\* replacement spliced for it; redaction_count is n; the entries are in
\* descending start_pos order.
C18_AuditEntries ==
    (tpc = "done" /\ entities # <<>>) =>
        LET audit == result.entities_redacted
        IN /\ Len(audit) = Len(entities)
           /\ result.redaction_count = Len(entities)
           /\ \A i \in 1..Len(entities) :
                 Cardinality({k \in 1..Len(audit) :
                     /\ audit[k].original_text = entities[i].text
                     /\ audit[k].entity_type = entities[i].entity_type
                     /\ audit[k].start_pos = entities[i].start_pos
                     /\ audit[k].end_pos = entities[i].end_pos
                     /\ audit[k].confidence = entities[i].confidence
                     /\ audit[k].source = entities[i].source
                     /\ audit[k].replacement = ReplacementOf(entities[i])}) = 1
           /\ \A k \in 1..Len(audit) : \A l \in 1..Len(audit) :
                 k < l => audit[k].start_pos > audit[l].start_pos

\* Entities of both types passed in ascending order to a partial redactor.
C18_Witness ==
    /\ tpc = "done"
    /\ strategy_name = "partial"
    /\ Len(entities) >= 2
    /\ entities[1].start_pos < entities[2].start_pos
    /\ entities[1].entity_type # entities[2].entity_type
    /\ result.redaction_count = Len(entities)

\* ---------------------------------------- properties of the hash strategy
\* C9: every replacement HashStrategy.redact returns is [TYPE_digest] with
\* the entity type of that same call and the digest of its snippet, whatever
\* calls came before.
C9_ReplacementCarriesCallType ==
    \A i \in 1..Len(calls) :
        calls[i].out =
            <<"[">> \o TypeChars[calls[i].entity_type] \o <<"_">>
                \o Digest(calls[i].original_text) \o <<"]">>

\* Index of the first logged call with the snippet s.
FirstCallWith(s) ==
    CHOOSE i \in 1..Len(calls) :
        /\ calls[i].original_text = s
        /\ \A j \in 1..(i - 1) : calls[j].original_text # s

\* C10: on one instance any two calls with the same snippet return the same
\* replacement, and the cache holds exactly the snippets seen so far, each
\* mapped to the replacement its first call returned.
C10_SameSnippetSameReplacement ==
    /\ \A i \in 1..Len(calls) : \A j \in 1..Len(calls) :
          calls[i].original_text = calls[j].original_text
              => calls[i].out = calls[j].out
    /\ DOMAIN hash_cache = {calls[i].original_text : i \in 1..Len(calls)}
    /\ \A s \in DOMAIN hash_cache : hash_cache[s] = calls[FirstCallWith(s)].out

\* The same snippet redacted under two entity types, with a call for another
\* snippet in between.
C10_Witness ==
    /\ Len(calls) = 3
    /\ calls[1].original_text = calls[3].original_text
    /\ calls[1].entity_type # calls[3].entity_type
    /\ calls[2].original_text # calls[1].original_text
    /\ calls[1].out = calls[3].out

\* ------------------------------ properties of the stateless strategies
\* The call just made went to the variant name.
Called(name) == p_strategy = name

\* The types PartialStrategy.redact has a branch of its own for.
PartialTypes == {"EMAIL", "PHONE", "CREDIT_CARD"}

\* C12 as stated: for every other type PartialStrategy.redact returns what
\* MaskStrategy.redact returns.
C12_PartialEqualsMask ==
    (Called("partial") /\ p_type \notin PartialTypes)
        => p_out = MaskRedact(p_text, p_type)

\* C12 as amended: for every other type PartialStrategy.redact returns the
\* trimmed snippet with all asterisks when it has at most 2 characters and
\* with only its first and last character visible otherwise; this is what
\* MaskStrategy.redact returns exactly when the trimmed snippet has at most
\* 4 characters or its second character is an asterisk.
C12_PartialFallback ==
    (Called("partial") /\ p_type \notin PartialTypes) =>
        LET t == Strip(p_text)
            n == Len(t)
        IN /\ Len(p_out) = n
           /\ n <= 2 => \A i \in 1..n : p_out[i] = "*"
           /\ n > 2 => /\ p_out[1] = t[1]
                       /\ p_out[n] = t[n]
                       /\ \A i \in 2..(n - 1) : p_out[i] = "*"
           /\ (p_out = MaskRedact(p_text, p_type)) <=> (n <= 4 \/ t[2] = "*")

\* A five-character snippet of an unknown type: only the first and the last
\* character are left, where Mask would leave the second as well.
C12_Witness ==
    /\ Called("partial")
    /\ p_type = "DATE"
    /\ p_text = <<"a", "b", "1", "b", "a">>
    /\ p_out = <<"a", "*", "*", "*", "a">>

\* C13 as stated: MaskStrategy.redact returns a string as long as the
\* snippet, built by the three tiers from the snippet's own characters.
C13_MaskKeepsLength ==
    Called("mask") =>
        LET n == Len(p_text)
        IN /\ Len(p_out) = n
           /\ n <= 2 => p_out = Stars(n)
           /\ n \in {3, 4} =>
                 p_out = <<p_text[1]>> \o Stars(n - 2) \o <<p_text[n]>>
           /\ n > 4 =>
                 p_out = <<p_text[1], p_text[2]>> \o Stars(n - 3) \o <<p_text[n]>>

\* C13 as amended: with t the snippet without its leading and trailing
\* whitespace and n the length of t, MaskStrategy.redact returns a string of
\* length n determined only by t: all asterisks when n <= 2, t[0] + (n-2)
\* asterisks + t[n-1] when n is 3 or 4, t[0:2] + (n-3) asterisks + t[n-1]
\* when n > 4, for every entity type and on every call.
C13_MaskTiers ==
    Called("mask") =>
        LET t == Strip(p_text)
            n == Len(t)
        IN /\ Len(p_out) = n
           /\ n <= 2 => \A i \in 1..n : p_out[i] = "*"
           /\ n \in {3, 4} =>
                 /\ p_out[1] = t[1]
                 /\ p_out[n] = t[n]
                 /\ \A i \in 2..(n - 1) : p_out[i] = "*"
           /\ n > 4 =>
                 /\ p_out[1] = t[1]
                 /\ p_out[2] = t[2]
                 /\ p_out[n] = t[n]
                 /\ \A i \in 3..(n - 1) : p_out[i] = "*"

\* A snippet with whitespace on both sides: the replacement is shorter than
\* the snippet and shows t[0] and t[n-1] of the trimmed text.
C13_Witness ==
    /\ Called("mask")
    /\ p_text = <<" ", "a", "1", "b", " ">>
    /\ p_out = <<"a", "*", "b">>

\* The username of an EMAIL snippet: what precedes the first '@' of the
\* trimmed snippet.
AtIndex == IndexOf(Strip(p_text), "@")

\* C14 as stated: for an EMAIL snippet containing '@' the result keeps the
\* first character of the username, has an asterisk for each other username
\* character and keeps '@' and the domain, so it is as long as the trimmed
\* snippet.
C14_EmailKeepsLength ==
    (Called("partial") /\ p_type = "EMAIL" /\ AtIndex # 0) =>
        LET t == Strip(p_text)
        IN /\ Len(p_out) = Len(t)
           /\ p_out[1] = t[1]
           /\ \A i \in 2..(AtIndex - 1) : p_out[i] = "*"
           /\ \A i \in AtIndex..Len(t) : p_out[i] = t[i]

\* C14 as amended: for an EMAIL snippet containing '@' whose trimmed text
\* does not start with '@', the result keeps the first character of the
\* username, has an asterisk for each other username character and keeps
\* '@' and the domain, so it is as long as the trimmed snippet; when the
\* trimmed text starts with '@' (empty username) the result is one asterisk
\* followed by the trimmed text, one character longer.
C14_EmailUsernameMasked ==
    (Called("partial") /\ p_type = "EMAIL" /\ AtIndex # 0) =>
        LET t == Strip(p_text)
        IN IF AtIndex > 1
           THEN /\ Len(p_out) = Len(t)
                /\ p_out[1] = t[1]
                /\ \A i \in 2..(AtIndex - 1) : p_out[i] = "*"
                /\ \A i \in AtIndex..Len(t) : p_out[i] = t[i]
           ELSE /\ Len(p_out) = Len(t) + 1
                /\ p_out[1] = "*"
                /\ \A i \in 1..Len(t) : p_out[i + 1] = t[i]

\* A username of three characters and a domain holding a second '@'.
C14_Witness ==
    /\ Called("partial")
    /\ p_type = "EMAIL"
    /\ p_text = <<"b", "a", "1", "@", "@">>
    /\ p_out = <<"b", "*", "*", "@", "@">>

\* C15: PlaceholderStrategy.redact returns the bracketed token its table
\* holds for the entity type, [REDACTED] for a type the table does not
\* hold, whatever the snippet, and never fails.
C15_PlaceholderToken ==
    Called("placeholder") =>
        p_out =
            CASE p_type = "EMAIL" ->
                   <<"[","R","E","D","A","C","T","E","D","_","E","M","A","I","L","]">>
              [] p_type = "PHONE" ->
                   <<"[","R","E","D","A","C","T","E","D","_","P","H","O","N","E","]">>
              [] p_type = "CREDIT_CARD" ->
                   <<"[","R","E","D","A","C","T","E","D","_",
                     "C","R","E","D","I","T","_","C","A","R","D","]">>
              [] p_type = "NAME" ->
                   <<"[","R","E","D","A","C","T","E","D","_","N","A","M","E","]">>
              [] p_type = "ZIP_CODE" ->
                   <<"[","R","E","D","A","C","T","E","D","_","Z","I","P","]">>
              [] OTHER ->
                   <<"[","R","E","D","A","C","T","E","D","]">>

\* A type the table does not hold, with a snippet that is not empty.
C15_Witness ==
    /\ Called("placeholder")
    /\ p_type = "DATE"
    /\ Len(p_text) = PureLen
    /\ p_out = <<"[","R","E","D","A","C","T","E","D","]">>

\* ------------------------------------- properties of the strategy instances
\* The logged calls that went to the strategy of the i-th redactor.
CallsOn(i) == {k \in 1..Len(inst_log) : inst_log[k].redactor = i}

\* The first call on the i-th redactor's strategy with the snippet s.
FirstOn(i, s) ==
    CHOOSE k \in CallsOn(i) :
        /\ inst_log[k].original_text = s
        /\ \A j \in CallsOn(i) : inst_log[j].original_text = s => k <= j

\* C11: the hash cache belongs to the instance: a new instance starts with
\* an empty cache, the cache of an instance holds exactly the snippets of
\* the calls made on that instance, and every result of an instance is the
\* one its own first call with that snippet produced, whatever was called
\* on the other instances.
C11_InstanceOwnedCache ==
    \A i \in 1..Len(redactors) :
        redactors[i].strategy.class = "HashStrategy" =>
            LET cache == redactors[i].strategy.hash_cache
            IN /\ DOMAIN cache = {inst_log[k].original_text : k \in CallsOn(i)}
               /\ \A s \in DOMAIN cache : cache[s] = inst_log[FirstOn(i, s)].out
               /\ \A k \in CallsOn(i) :
                     inst_log[k].out =
                         <<"[">>
                         \o TypeChars[inst_log[FirstOn(i, inst_log[k].original_text)].entity_type]
                         \o <<"_">> \o Digest(inst_log[k].original_text) \o <<"]">>

\* Two hash redactors given the same snippet under different types: each
\* answers with its own type, and each cache holds its own replacement.
C11_Witness ==
    /\ Len(redactors) = 2
    /\ redactors[1].strategy.class = "HashStrategy"
    /\ redactors[2].strategy.class = "HashStrategy"
    /\ Len(inst_log) = 2
    /\ inst_log[1].redactor = 1
    /\ inst_log[2].redactor = 2
    /\ inst_log[1].original_text = inst_log[2].original_text
    /\ inst_log[1].entity_type # inst_log[2].entity_type
    /\ inst_log[1].out # inst_log[2].out
    /\ redactors[1].strategy.hash_cache # redactors[2].strategy.hash_cache

\* The constructions that returned a redactor.
Succeeded == {k \in 1..Len(ctor_log) : ctor_log[k].raised = "none"}

\* The construction that made the i-th redactor.
MadeBy(i) ==
    CHOOSE k \in Succeeded : Cardinality({j \in Succeeded : j < k}) = i - 1

\* C16: a construction raises ValueError exactly when the name is not one
\* of placeholder, mask, remove, hash, partial, and then adds no redactor;
\* every other construction adds one redactor, whose strategy is of the
\* class registered under the name asked for.
C16_ExactNameOrError ==
    /\ \A k \in 1..Len(ctor_log) :
          ctor_log[k].raised =
              IF ctor_log[k].strategy_name
                     \in {"placeholder", "mask", "remove", "hash", "partial"}
              THEN "none" ELSE "ValueError"
    /\ Len(redactors) = Cardinality(Succeeded)
    /\ \A i \in 1..Len(redactors) :
          /\ redactors[i].strategy_name = ctor_log[MadeBy(i)].strategy_name
          /\ redactors[i].strategy.class =
                CASE redactors[i].strategy_name = "placeholder" -> "PlaceholderStrategy"
                  [] redactors[i].strategy_name = "mask" -> "MaskStrategy"
                  [] redactors[i].strategy_name = "remove" -> "RemoveStrategy"
                  [] redactors[i].strategy_name = "hash" -> "HashStrategy"
                  [] redactors[i].strategy_name = "partial" -> "PartialStrategy"

\* A name in the wrong case is refused, the exact name then accepted.
C16_Witness ==
    /\ Len(ctor_log) = 2
    /\ ctor_log[1] = [strategy_name |-> "Hash", raised |-> "ValueError"]
    /\ ctor_log[2] = [strategy_name |-> "hash", raised |-> "none"]
    /\ Len(redactors) = 1
    /\ redactors[1].strategy.class = "HashStrategy"

\* ------------------------------------------ properties of the detector
\* The log entries of the matches whose entity was appended to entities.
LoggedAppended == SelectSeq(det_log, LAMBDA l : l.appended)

\* The span and the text of an entity are those of the span sp of text.
HasSpan(entity, sp) ==
    /\ entity.start_pos = sp.start
    /\ entity.end_pos = sp.end
    /\ entity.text = [i \in 1..(sp.end - sp.start) |-> text[sp.start + i]]

\* C19 as stated: an entity emitted for a match of a pattern that defines a
\* capture group has the start, end and text of the group, whatever the
\* entity type.
C19_GroupSpanEveryType ==
    \A i \in 1..Len(det_log) :
        (det_log[i].appended /\ PII_PATTERNS[det_log[i].pattern].groups > 0)
            => HasSpan(det_log[i].entity, det_log[i].match.groups[1])

\* C19 as amended: an entity emitted for a match of a NAME pattern that
\* defines a capture group has the start, end and text of the group; an
\* entity emitted for a match of any other pattern, the ADDRESS street
\* pattern with its capture group included, has the start, end and text of
\* the whole match.
C19_GroupSpanForName ==
    /\ det_entities = [i \in 1..Len(LoggedAppended) |-> LoggedAppended[i].entity]
    /\ \A i \in 1..Len(det_log) :
          LET p == PII_PATTERNS[det_log[i].pattern]
          IN /\ Len(det_log[i].match.groups) = p.groups
             /\ det_log[i].entity.entity_type = p.entity_type
             /\ det_log[i].appended =>
                   IF p.entity_type = "NAME" /\ p.groups > 0
                   THEN HasSpan(det_log[i].entity, det_log[i].match.groups[1])
                   ELSE HasSpan(det_log[i].entity, det_log[i].match)

\* "I am Al 1 a St": the NAME entity is the group "Al", the ADDRESS entity
\* the whole match "1 a St" although its pattern captured "St".
C19_Witness ==
    /\ det_pc = "done"
    /\ Len(det_entities) = 2
    /\ det_entities[1].entity_type = "ADDRESS"
    /\ det_entities[1].text = <<"1", " ", "a", " ", "S", "t">>
    /\ det_log[1].match.groups = <<Group(12, 14)>>
    /\ det_entities[2].entity_type = "NAME"
    /\ det_entities[2].text = <<"A", "l">>
    /\ det_entities[2].start_pos = 5
    /\ det_log[2].match.start = 0

\* The two post-filters, on the text and the type of an entity.
TooShort(entity) == Len(Strip(entity.text)) < 2

KnownFalsePositive(entity) ==
    /\ entity.entity_type \in {"EMAIL", "NAME", "ADDRESS"}
    /\ \E fp \in FALSE_POSITIVES[entity.entity_type] :
          Lower(fp) = Lower(entity.text)

\* C20: no returned entity has a trimmed text of fewer than 2 characters or
\* a text equal, ignoring case, to a false-positive entry of its type, and
\* the returned entities are exactly the entities of the matches handled
\* that pass these two filters, in the order of the matches: nothing else
\* (an overlap with another match, a duplicate) discards a match.
C20_OnlyTheTwoFilters ==
    /\ \A i \in 1..Len(det_entities) :
          ~TooShort(det_entities[i]) /\ ~KnownFalsePositive(det_entities[i])
    /\ det_entities =
          SelectSeq([i \in 1..Len(det_log) |-> det_log[i].entity],
                    LAMBDA e : ~TooShort(e) /\ ~KnownFalsePositive(e))
    /\ det_pc = "done" =>
          \A k \in 1..Len(PII_PATTERNS) :
              \A j \in 1..Len(finditer(k, text)) :
                  (text # <<>> /\ Strip(text) # <<>>) =>
                      \E i \in 1..Len(det_log) :
                          /\ det_log[i].pattern = k
                          /\ det_log[i].match = finditer(k, text)[j]

\* "I am Test a@b.co": the NAME match is dropped as the false positive
\* "Test", the matches of the two EMAIL patterns, which cover the same
\* span, are both returned.
C20_Witness ==
    /\ det_pc = "done"
    /\ Len(det_log) = 3
    /\ Len(det_entities) = 2
    /\ det_entities[1] = det_entities[2]
    /\ det_log[1].pattern # det_log[2].pattern
    /\ det_log[3].entity.text = <<"T", "e", "s", "t">>
    /\ ~det_log[3].appended

\* ----------------------------------------- properties of the validator
\* The audit entries whose original_text occurs, ignoring case, somewhere in
\* the redacted text.
Leaking ==
    {i \in 1..Len(val_result.entities_redacted) :
        LET pii == Lower(val_result.entities_redacted[i].original_text)
            red == Lower(val_result.redacted_text)
        IN \E at \in 0..(Len(red) - Len(pii)) :
               \A k \in 1..Len(pii) : red[at + k] = pii[k]}

\* C26: validate_redaction returns a dictionary for every result; is_valid
\* is false exactly when some audit entry's original_text occurs, ignoring
\* case, in the redacted text, with one error per such entry; a redacted
\* text longer than 1.5 times the original adds one warning and changes
\* neither is_valid nor errors.
C26_ValidatorOnlyReports ==
    validation # <<>> =>
        /\ DOMAIN validation[1] = {"is_valid", "errors", "warnings"}
        /\ validation[1].is_valid = (Leaking = {})
        /\ Len(validation[1].errors) = Cardinality(Leaking)
        /\ \A i \in 1..Len(validation[1].errors) :
              \E k \in Leaking :
                  validation[1].errors[i].still_present =
                      val_result.entities_redacted[k].original_text
        /\ Len(validation[1].warnings) =
              IF 2 * Len(val_result.redacted_text) > 3 * Len(val_result.original_text)
              THEN 1 ELSE 0

\* A result whose entry "A" is still in the redacted text as "a", and whose
\* redacted text is more than 1.5 times as long as the original: flagged
\* as invalid with one error, and one warning.
C26_Witness ==
    /\ validation # <<>>
    /\ Len(val_result.entities_redacted) = 2
    /\ val_result.entities_redacted[1].original_text = <<"A">>
    /\ val_result.entities_redacted[2].original_text = <<"a", "A">>
    /\ val_result.redacted_text = <<"*", "a", "*">>
    /\ Len(val_result.original_text) = 1
    /\ ~validation[1].is_valid
    /\ Len(validation[1].errors) = 1
    /\ Len(validation[1].warnings) = 1

\* ---------------------------------- properties of the detection sources
\* C21: a ComprehendDetector method in which an error occurred returned an
\* empty list, also when entities of the response were converted before
\* the error; without a client it returned an empty list and did not call
\* the service.
C21_ErrorReturnsEmpty ==
    \A i \in 1..Len(src_calls) :
        /\ src_calls[i].error => src_calls[i].returned = <<>>
        /\ pii_detector.comprehend_detector.comprehend_client = "None" =>
              src_calls[i].returned = <<>> /\ ~src_calls[i].service_called

\* The lists of the sources that did not fail: the regex detector's and
\* those of the Comprehend calls that ended without an error.
RemainingLists ==
    <<src_lists[1]>>
    \o [i \in 1..Len(SelectSeq(src_calls, LAMBDA c : ~c.error)) |->
           SelectSeq(src_calls, LAMBDA c : ~c.error)[i].returned]

\* C22: PIIDetector.detect_pii returns the reconciliation of the entities
\* of the sources that did not fail, whatever the failed sources did.
C22_FailedSourceLeavesNoTrace ==
    (src_pc = "done" /\ src_lists # <<>>) =>
        src_result = merge_entity_lists(RemainingLists)

\* ---------------------------------- properties of the payload processors
Returned == pl_pc \in {"processed", "redacted"}

ConfiguredFields == Elems(pii_fields)

AllSpace(chars) == \A i \in 1..Len(chars) : IsSpace(chars[i])

\* The field is absent, is not a str, or is empty or whitespace only.
Skippable(k) ==
    \/ k \notin DOMAIN payload
    \/ payload[k].kind # "str"
    \/ AllSpace(payload[k].val)

\* The entities the detection step handed over for the field.
Given(k) ==
    IF AnswerFor(detector_answers, k).raises THEN <<>>
    ELSE AnswerFor(detector_answers, k).entities

HasMetadata == "_redaction_metadata" \in DOMAIN redacted_payload

Redactions ==
    IF HasMetadata THEN redacted_payload["_redaction_metadata"].redactions ELSE <<>>

\* The key has in the returned record what it had in the input record.
SameAsInput(k) ==
    /\ k \in DOMAIN redacted_payload <=> k \in DOMAIN payload
    /\ k \in DOMAIN payload => redacted_payload[k] = payload[k]

\* C24: a configured field that is absent, not a string, or empty or
\* whitespace-only is skipped without error (it is returned as it was and
\* nothing is recorded for it), and a record in which no field had any
\* redaction is returned with every key equal to the input and without a
\* _redaction_metadata block.
C24_SkippedFieldsAndVerbatimCopy ==
    Returned =>
        /\ \A k \in ConfiguredFields :
              Skippable(k) =>
                  /\ SameAsInput(k)
                  /\ \A i \in 1..Len(Redactions) : Redactions[i].field_name # k
        /\ (/\ pl_pc = "processed"
            /\ \A k \in ConfiguredFields :
                  ~Skippable(k) => ~AnswerFor(detector_answers, k).raises)
           => processing_stats.status = "success"
        /\ (\A k \in ConfiguredFields : ~Skippable(k) => Given(k) = <<>>)
           => /\ DOMAIN redacted_payload = DOMAIN payload
              /\ \A k \in DOMAIN payload : redacted_payload[k] = payload[k]

C24_Witness ==
    /\ pl_pc = "redacted"
    /\ DOMAIN payload = {"verbatim_id", "sentence", "notes"}
    /\ payload["sentence"].kind = "int"
    /\ payload["notes"] = StrValue(BlankDoc)
    /\ Len(Given("sentence")) = 1
    /\ Len(Given("notes")) = 2
    /\ ~HasMetadata

\* The fields whose text the call changed.
RedactedFields ==
    {k \in ConfiguredFields : k \in DOMAIN payload /\ redacted_payload[k] # payload[k]}

RECURSIVE SumGiven(_)
SumGiven(ks) ==
    IF ks = {} THEN 0
    ELSE LET k == CHOOSE x \in ks : TRUE IN Len(Given(k)) + SumGiven(ks \ {k})

\* C25: a record with at least one redaction gets a _redaction_metadata
\* block; in it redaction_count is the length of redactions and the sum,
\* over the redacted fields, of the entities applied in the field;
\* strategy_used is the configured strategy; every entry carries the
\* field_name of the field it was applied in.
C25_MetadataBlock ==
    Returned =>
        /\ RedactedFields # {} => HasMetadata
        /\ HasMetadata =>
              LET m == redacted_payload["_redaction_metadata"]
              IN /\ m.redaction_count = Len(m.redactions)
                 /\ m.redaction_count >= 1
                 /\ m.redaction_count = SumGiven(RedactedFields)
                 /\ m.strategy_used = pl_strategy
                 /\ \A k \in ConfiguredFields :
                       Cardinality({i \in 1..Len(m.redactions) :
                                       m.redactions[i].field_name = k})
                       = IF k \in RedactedFields THEN Len(Given(k)) ELSE 0
                 /\ \A i \in 1..Len(m.redactions) :
                       /\ m.redactions[i].field_name \in RedactedFields
                       /\ m.redactions[i].original_text
                          = Slice(payload[m.redactions[i].field_name].val,
                                  m.redactions[i].start_pos, m.redactions[i].end_pos)

C25_Witness ==
    /\ pl_pc = "processed"
    /\ RedactedFields = {"sentence", "notes"}
    /\ payload["sentence"] # payload["notes"]
    /\ HasMetadata
    /\ redacted_payload["_redaction_metadata"].redaction_count = 3
    /\ Redactions[1].field_name = "sentence"
    /\ Redactions[3].field_name = "notes"

\* C30: process_payload leaves the input record as it was, and every key
\* of the returned record other than the redacted text fields and
\* _redaction_metadata has the value it has in the input, on the success
\* path and on the failure path.
C30_InputUntouched ==
    Returned =>
        /\ DOMAIN payload_in = DOMAIN payload
        /\ \A k \in DOMAIN payload : payload_in[k] = payload[k]
        /\ DOMAIN redacted_payload \subseteq DOMAIN payload \cup {"_redaction_metadata"}
        /\ DOMAIN payload \subseteq DOMAIN redacted_payload
        /\ \A k \in DOMAIN payload :
              (Skippable(k) \/ Given(k) = <<>> \/ k \notin ConfiguredFields)
                  => redacted_payload[k] = payload[k]

C30_Witness ==
    /\ pl_pc = "processed"
    /\ processing_stats.status = "success"
    /\ DOMAIN payload = {"verbatim_id", "sentence", "notes"}
    /\ payload["notes"].kind = "int"
    /\ Len(Given("notes")) = 1
    /\ RedactedFields = {"sentence"}
    /\ HasMetadata

\* C23: when processing a field raises, the record is not marked failed as
\* a whole, the field is returned unredacted, and the other text fields
\* are redacted as they are without the failure.
C23_OnlyFailingFieldUnredacted ==
    pl_pc = "processed" =>
        \A k \in ConfiguredFields :
            (~Skippable(k) /\ AnswerFor(detector_answers, k).raises) =>
                /\ processing_stats.status # "failed"
                /\ redacted_payload[k] = payload[k]
                /\ \A g \in ConfiguredFields \ {k} :
                      (~Skippable(g) /\ Given(g) # <<>>) =>
                          redacted_payload[g]
                          = StrValue(RedactText(pl_strategy, EmptyCache,
                                                payload[g].val,
                                                Given(g)).result.redacted_text)

\* ------------------------------------------ properties of the file processor
\* C29: after process_file_in_place ended without success (a failed
\* JobResult or an exception) the file holds its original content; after
\* it ended with success the backup file no longer exists.
C29_RestoredUnlessSuccess ==
    fs_pc = "done" =>
        /\ fs_result # "success" => fs_file = fs_original
        /\ fs_result = "success" => ~fs_backup.exists

====
